---- MODULE Spec2Model ----
(***************************************************************************)
(* Model of the recommendation / scoring engine of virtual-doctor:         *)
(*   services/symptom_checker.py  (SymptomChecker)                         *)
(*   services/medicine_service.py (MedicineService)                        *)
(*   models/medicine.py           (the five record kinds)                  *)
(*                                                                         *)
(* Names are sequences of character codes so that the SQL ILIKE / IN       *)
(* comparisons and Python's `in` are computed, not assumed.  Scores        *)
(* are exact rationals [num, den] in lowest terms; the program's floats    *)
(* are modelled by the real numbers they approximate.                      *)
(***************************************************************************)
EXTENDS Integers, Sequences, FiniteSets, TLC

VARIABLES store, op, args, outcome, ret, calls, threads, scratch, earlier

vars == <<store, op, args, outcome, ret, calls, threads, scratch, earlier>>

(***************************************************************************)
(* Bounds of the model                                                     *)
(***************************************************************************)
\* medicines in the large catalogue (more than the ranker's cut-off)
NMed == 12
\* longest list of requested symptom names
MaxSymptoms == 2
\* longest list of patient condition names given to the safety scorer
MaxConditions == 2
\* longest list of patient condition names in a recommendation request
MaxRequestConditions == 1
\* longest list of patient condition names given to the safety overview
MaxOverviewConditions == 3

\* Python's None
None == "None"

(***************************************************************************)
(* Exact rational arithmetic                                               *)
(***************************************************************************)
Abs(n) == IF n < 0 THEN -n ELSE n

RECURSIVE GCD(_, _)
GCD(a, b) == IF b = 0 THEN a ELSE GCD(b, a % b)

\* the rational n/d (d > 0) in lowest terms
R(n, d) ==
    LET g == GCD(Abs(n), d)
    IN  [num |-> n \div g, den |-> d \div g]

RAdd(a, b) == R(a.num * b.den + b.num * a.den, a.den * b.den)
RSub(a, b) == R(a.num * b.den - b.num * a.den, a.den * b.den)
RMul(a, b) == R(a.num * b.num, a.den * b.den)
RDivInt(a, n) == R(a.num, a.den * n)
RLess(a, b) == a.num * b.den < b.num * a.den
RLeq(a, b) == a.num * b.den <= b.num * a.den
RZero == R(0, 1)
ROne == R(1, 1)
\* Python's max(0, x)
RMax0(a) == IF RLess(RZero, a) THEN a ELSE RZero

(***************************************************************************)
(* Strings                                                                 *)
(***************************************************************************)
\* the elements of a sequence as a set
Range(s) == { s[i] : i \in 1..Len(s) }

\* A string is the sequence of its characters' code points.
\* str.lower() on one character: "A".."Z" (65..90) map to "a".."z"
LowerChar(c) == IF c >= 65 /\ c <= 90 THEN c + 32 ELSE c

\* column.ilike("%term%"): lower(term) occurs in lower(value)
ilike(value, term) ==
    \E i \in 0..(Len(value) - Len(term)) :
        \A j \in 1..Len(term) : LowerChar(value[i + j]) = LowerChar(term[j])

\* str.lower()
lower(s) == [i \in 1..Len(s) |-> LowerChar(s[i])]

\* Python's `sub in text` on strings
contains(text, sub) ==
    \E i \in 0..(Len(text) - Len(sub)) :
        \A j \in 1..Len(sub) : text[i + j] = sub[j]

\* white space, as str.split() and the regular expression \s see it
IsSpace(c) == c \in {9, 10, 11, 12, 13, 32}

\* a decimal digit, as the regular expression \d sees it
IsDigit(c) == c >= 48 /\ c <= 57

\* str.split(): the maximal runs of characters that are not white space
RECURSIVE SplitLoop(_, _, _, _)
SplitLoop(s, i, word, words) ==
    IF i > Len(s) THEN IF word = <<>> THEN words ELSE Append(words, word)
    ELSE IF IsSpace(s[i])
    THEN SplitLoop(s, i + 1, <<>>, IF word = <<>> THEN words ELSE Append(words, word))
    ELSE SplitLoop(s, i + 1, Append(word, s[i]), words)
split(s) == SplitLoop(s, 1, <<>>, <<>>)

\* int() of a string of decimal digits
RECURSIVE int(_)
int(digits) ==
    IF digits = <<>> THEN 0
    ELSE 10 * int(SubSeq(digits, 1, Len(digits) - 1)) + (digits[Len(digits)] - 48)

\* str() of a natural number
RECURSIVE str(_)
str(n) == IF n < 10 THEN <<48 + n>> ELSE str(n \div 10) \o <<48 + (n % 10)>>

\* ", ".join(names)
RECURSIVE join(_)
join(names) ==
    IF names = <<>> THEN <<>>
    ELSE IF Len(names) = 1 THEN names[1]
    ELSE names[1] \o <<44, 32>> \o join(Tail(names))

\* "Fever"
Fever == <<70, 101, 118, 101, 114>>

\* "fever"
fever == <<102, 101, 118, 101, 114>>

\* "Fev"
Fev == <<70, 101, 118>>

\* "Headache"
Headache == <<72, 101, 97, 100, 97, 99, 104, 101>>

\* "Cough"
Cough == <<67, 111, 117, 103, 104>>

\* "Pregnancy"
Pregnancy == <<80, 114, 101, 103, 110, 97, 110, 99, 121>>

\* "Diabetes"
Diabetes == <<68, 105, 97, 98, 101, 116, 101, 115>>

\* "Asthma"
Asthma == <<65, 115, 116, 104, 109, 97>>

\* "Liver Disease"
LiverDisease == <<76, 105, 118, 101, 114, 32, 68, 105, 115, 101, 97, 115, 101>>

\* "Kidney Disease"
KidneyDisease == <<75, 105, 100, 110, 101, 121, 32, 68, 105, 115, 101, 97, 115, 101>>

\* "Sore Throat"
SoreThroat == <<83, 111, 114, 101, 32, 84, 104, 114, 111, 97, 116>>

\* "Dry Eye"
DryEye == <<68, 114, 121, 32, 69, 121, 101>>

\* "Pain"
Pain == <<80, 97, 105, 110>>

\* "Chest Pain"
ChestPain == <<67, 104, 101, 115, 116, 32, 80, 97, 105, 110>>

\* "Test Medicine "
TestMedicine == <<84, 101, 115, 116, 32, 77, 101, 100, 105, 99, 105, 110, 101, 32>>

\* "Test Generic "
TestGeneric == <<84, 101, 115, 116, 32, 71, 101, 110, 101, 114, 105, 99, 32>>

\* "Aspirin"
Aspirin == <<65, 115, 112, 105, 114, 105, 110>>

\* "Unknown"
Unknown == <<85, 110, 107, 110, 111, 119, 110>>

(***************************************************************************)
(* The knowledge store: five tables, each a sequence of rows in rowid      *)
(* order (models/medicine.py).  Only the columns the engine reads are      *)
(* kept.                                                                   *)
(***************************************************************************)
PregnancyCategories == <<None, "A", "B", "C", "D", "X">>
Severities == {"mild", "moderate", "severe"}

\* the names of the medicine with a given id: "Test Medicine 1" and
\* "Test Generic 1" as in the tests; brand_name is nullable, every third
\* medicine has none
BrandName(id) == IF id % 3 = 0 THEN None ELSE TestMedicine \o str(id)
GenericName(id) == TestGeneric \o str(id)

\* a row of `medicines`
Medicine(id, category, pediatric, geriatric) ==
    [id |-> id, brand_name |-> BrandName(id), generic_name |-> GenericName(id),
     pregnancy_category |-> category,
     pediatric_use |-> pediatric, geriatric_use |-> geriatric]

\* a row of `symptoms`
Symptom(id, name) == [id |-> id, name |-> name]

\* a row of `patient_conditions`
PatientCondition(id, name) == [id |-> id, name |-> name]

\* a row of `medicine_symptoms`
MedicineSymptom(m, s, score, contraindicated) ==
    [medicine_id |-> m, symptom_id |-> s,
     effectiveness_score |-> score, contraindicated |-> contraindicated]

\* a row of `medicine_contraindications`
MedicineContraindication(m, c, severity, notes) ==
    [medicine_id |-> m, condition_id |-> c, severity |-> severity, notes |-> notes]

\* the fixture of test_symptom_checker.py: two medicines without safety
\* columns, Fever and Headache, one effectiveness edge each
FixtureMedicines == <<Medicine(1, None, None, None), Medicine(2, None, None, None)>>
FixtureEdges == <<MedicineSymptom(1, 1, R(8, 10), FALSE),
                  MedicineSymptom(2, 2, R(7, 10), FALSE)>>

\* a catalogue of NMed medicines covering every pregnancy category with and
\* without pediatric guidance and with and without geriatric guidance
CatalogueMedicine(i) ==
    Medicine(i,
             PregnancyCategories[((i - 1) % 6) + 1],
             IF ((i - 1) \div 6) % 2 = 0 THEN "Safe for children over 2"
             ELSE IF i % 2 = 0 THEN "" ELSE None,
             IF ((i - 1) \div 4) % 2 = 0 THEN None ELSE "No dose adjustment")
CatalogueMedicines == [i \in 1..NMed |-> CatalogueMedicine(i)]

\* every catalogue medicine treats Fever, with scores 0.9, 0.5, 0.0 in turn;
\* some have further edges (a second symptom, a duplicate, a contraindicated one)
EffCycle == <<R(9, 10), R(1, 2), RZero>>
CatalogueEdges ==
    [i \in 1..NMed |-> MedicineSymptom(i, 1, EffCycle[((i - 1) % 3) + 1], FALSE)]
    \o <<MedicineSymptom(1, 2, R(7, 10), FALSE),
         MedicineSymptom(1, 1, R(3, 10), FALSE),
         MedicineSymptom(3, 2, R(6, 10), TRUE),
         MedicineSymptom(4, 2, R(1, 10), FALSE)>>

StoredSymptoms == <<Symptom(1, Fever), Symptom(2, Headache)>>
StoredConditions == <<PatientCondition(1, Pregnancy), PatientCondition(2, Diabetes)>>

\* contraindication rows: medicine 2 with Pregnancy, medicine 3 with both
Contraindications ==
    <<MedicineContraindication(2, 1, "severe", "may harm the fetus"),
      MedicineContraindication(3, 2, "moderate", "raises blood sugar"),
      MedicineContraindication(3, 1, "mild", "limited data")>>

MkStore(medicines, edges, contraindications) ==
    [medicines |-> medicines,
     symptoms |-> StoredSymptoms,
     patient_conditions |-> StoredConditions,
     medicine_symptoms |-> edges,
     medicine_contraindications |-> contraindications]

\* a store whose symptom names have several words, long and short ones; the
\* second fixture medicine also treats the sore throat
PhraseSymptoms ==
    StoredSymptoms \o <<Symptom(3, SoreThroat), Symptom(4, DryEye)>>
PhraseEdges == FixtureEdges \o <<MedicineSymptom(2, 3, R(6, 10), FALSE)>>
PhraseStore ==
    [MkStore(FixtureMedicines, PhraseEdges, <<>>) EXCEPT !.symptoms = PhraseSymptoms]

\* a store in which one symptom name is part of an earlier one: the first
\* fixture medicine treats Pain, the second Chest Pain
PainSymptoms == <<Symptom(1, ChestPain), Symptom(2, Pain)>>
PainEdges == <<MedicineSymptom(1, 2, R(9, 10), FALSE),
               MedicineSymptom(2, 1, R(5, 10), FALSE)>>
PainStore ==
    [MkStore(FixtureMedicines, PainEdges, <<>>) EXCEPT !.symptoms = PainSymptoms]

\* the test fixture, a catalogue with contraindications, the store with
\* symptom names of several words, and the store with overlapping names
Stores ==
    { MkStore(FixtureMedicines, FixtureEdges, <<>>),
      MkStore(CatalogueMedicines, CatalogueEdges, Contraindications),
      PhraseStore,
      PainStore }

(***************************************************************************)
(* Query helpers: session.query(T).filter(...).first()                     *)
(***************************************************************************)
\* .first(): the least of a set of row indices, 0 when the set is empty
FirstOf(hits) ==
    IF hits = {} THEN 0 ELSE CHOOSE i \in hits : \A j \in hits : i <= j

(***************************************************************************)
(* MedicineService                                                         *)
(***************************************************************************)
\* variant: one medicine per matching effectiveness edge (a join of the
\* edges with the medicines)
search_medicines_by_symptoms_perEdge(symptoms) ==
    IF symptoms = <<>> THEN <<>>
    ELSE
      LET NameIn(s) == s.name \in Range(symptoms)
          symptom_objects == SelectSeq(store.symptoms, NameIn)
          symptom_ids == { s.id : s \in Range(symptom_objects) }
          Treats(ms) == ms.symptom_id \in symptom_ids /\ ms.contraindicated = FALSE
          medicine_symptoms == SelectSeq(store.medicine_symptoms, Treats)
          IsId(id) == LET Is(m) == m.id = id IN SelectSeq(store.medicines, Is)
      IN  IF symptom_objects = <<>> THEN <<>>
          ELSE [i \in 1..Len(medicine_symptoms) |->
                   IsId(medicine_symptoms[i].medicine_id)[1]]

\* MedicineService.search_medicines_by_symptoms: Symptom.name.in_(symptoms)
\* is an exact comparison of the stored name with each term
search_medicines_by_symptoms(symptoms) ==
    IF symptoms = <<>> THEN <<>>
    ELSE
      LET NameIn(s) == s.name \in Range(symptoms)
          symptom_objects == SelectSeq(store.symptoms, NameIn)
          symptom_ids == { s.id : s \in Range(symptom_objects) }
          Treats(ms) == ms.symptom_id \in symptom_ids /\ ms.contraindicated = FALSE
          medicine_symptoms == SelectSeq(store.medicine_symptoms, Treats)
          medicine_ids == { ms.medicine_id : ms \in Range(medicine_symptoms) }
          IdIn(m) == m.id \in medicine_ids
      IN  IF symptom_objects = <<>> THEN <<>>
          ELSE IF medicine_ids = {} THEN <<>>
          ELSE SelectSeq(store.medicines, IdIn)

\* MedicineService.get_medicine_effectiveness
get_medicine_effectiveness(medicine_id, symptom_id) ==
    LET k == FirstOf({ i \in 1..Len(store.medicine_symptoms) :
                        /\ store.medicine_symptoms[i].medicine_id = medicine_id
                        /\ store.medicine_symptoms[i].symptom_id = symptom_id })
    IN  IF k # 0 THEN store.medicine_symptoms[k].effectiveness_score ELSE RZero

\* the first contraindication row of (medicine, condition), 0 when none
FirstContraindication(medicine_id, condition_id) ==
    FirstOf({ i \in 1..Len(store.medicine_contraindications) :
                /\ store.medicine_contraindications[i].medicine_id = medicine_id
                /\ store.medicine_contraindications[i].condition_id = condition_id })

\* MedicineService.is_medicine_contraindicated
is_medicine_contraindicated(medicine_id, condition_id) ==
    FirstContraindication(medicine_id, condition_id) # 0

(***************************************************************************)
(* SymptomChecker                                                          *)
(***************************************************************************)
\* names bound in the module symptom_checker.py by its import statements
SymptomCheckerImports ==
    {"MedicineService", "sessionmaker", "create_engine", "Symptom",
     "PatientCondition", "MedicineSymptom", "MedicineContraindication",
     "re", "json"}

\* evaluating a global name that is not bound raises NameError
NameError(name) == name \notin SymptomCheckerImports

\* a call either returns a value or raises
Return(v) == [raised |-> FALSE, value |-> v]
Raise(e) == [raised |-> TRUE, value |-> e]

\* an optional age: <<>> is None, <<a>> is the integer a
NoAge == <<>>
\* Python truthiness of an optional integer: None and 0 are false
TruthyAge(age) == age # NoAge /\ age[1] # 0
\* Python truthiness of an optional text column: None and "" are false
TruthyText(t) == t # None /\ t # ""

\* session.query(Symptom).filter(Symptom.name.ilike("%term%")).first()
FirstSymptom(term) ==
    FirstOf({ i \in 1..Len(store.symptoms) : ilike(store.symptoms[i].name, term) })

\* session.query(PatientCondition).filter(PatientCondition.name.ilike("%term%")).first()
FirstCondition(term) ==
    FirstOf({ i \in 1..Len(store.patient_conditions) :
                ilike(store.patient_conditions[i].name, term) })

\* the loop of _get_effectiveness_for_symptoms: <<total_score, symptom_count>>
RECURSIVE EffectivenessLoop(_, _, _, _, _)
EffectivenessLoop(medicine, symptoms, i, total_score, symptom_count) ==
    IF i > Len(symptoms) THEN <<total_score, symptom_count>>
    ELSE LET k == FirstSymptom(symptoms[i])
         IN  IF k # 0
             THEN EffectivenessLoop(medicine, symptoms, i + 1,
                     RAdd(total_score,
                          get_medicine_effectiveness(medicine.id, store.symptoms[k].id)),
                     symptom_count + 1)
             ELSE EffectivenessLoop(medicine, symptoms, i + 1, total_score, symptom_count)

\* variant: the total divided by the number of requested names
get_effectiveness_for_symptoms_byLength(medicine, symptoms) ==
    IF symptoms = <<>> THEN RZero
    ELSE RDivInt(EffectivenessLoop(medicine, symptoms, 1, RZero, 0)[1], Len(symptoms))

\* SymptomChecker._get_effectiveness_for_symptoms
get_effectiveness_for_symptoms(medicine, symptoms) ==
    IF symptoms = <<>> THEN RZero
    ELSE LET r == EffectivenessLoop(medicine, symptoms, 1, RZero, 0)
         IN  IF r[2] > 0 THEN RDivInt(r[1], r[2]) ELSE RZero

\* the penalty subtracted for one contraindication row
SeverityPenalty(severity) ==
    IF severity = "severe" THEN ROne
    ELSE IF severity = "moderate" THEN R(1, 2)
    ELSE IF severity = "mild" THEN R(1, 5)
    ELSE RZero

\* the contraindication loop of _calculate_safety_score; the second query
\* is built with and_(...)
RECURSIVE ContraindicationLoop(_, _, _, _)
ContraindicationLoop(medicine, conditions, i, safety_score) ==
    IF i > Len(conditions) THEN Return(safety_score)
    ELSE LET k == FirstCondition(conditions[i])
         IN  IF k # 0 /\ is_medicine_contraindicated(medicine.id, store.patient_conditions[k].id)
             THEN IF NameError("and_") THEN Raise("NameError")
                  ELSE LET j == FirstContraindication(medicine.id, store.patient_conditions[k].id)
                       IN  ContraindicationLoop(medicine, conditions, i + 1,
                              IF j # 0
                              THEN RSub(safety_score,
                                     SeverityPenalty(store.medicine_contraindications[j].severity))
                              ELSE safety_score)
             ELSE ContraindicationLoop(medicine, conditions, i + 1, safety_score)

\* the age-based adjustment of _calculate_safety_score
AgeAdjustment(medicine, age, safety_score) ==
    IF TruthyAge(age)
    THEN IF age[1] < 12
         THEN IF ~TruthyText(medicine.pediatric_use)
              THEN RSub(safety_score, R(3, 10)) ELSE safety_score
         ELSE IF age[1] > 65
         THEN IF ~TruthyText(medicine.geriatric_use)
              THEN RSub(safety_score, R(2, 10)) ELSE safety_score
         ELSE safety_score
    ELSE safety_score

\* variant: the adjustment applied only to patients who list Pregnancy
PregnancyAdjustment_ifPregnant(medicine, conditions, safety_score) ==
    IF Pregnancy \notin Range(conditions) THEN safety_score
    ELSE IF medicine.pregnancy_category = "X" THEN RSub(safety_score, R(8, 10))
    ELSE IF medicine.pregnancy_category = "D" THEN RSub(safety_score, R(5, 10))
    ELSE IF medicine.pregnancy_category = "C" THEN RSub(safety_score, R(2, 10))
    ELSE safety_score

\* the pregnancy-category adjustment of _calculate_safety_score
PregnancyAdjustment(medicine, conditions, safety_score) ==
    IF medicine.pregnancy_category = "X" THEN RSub(safety_score, R(8, 10))
    ELSE IF medicine.pregnancy_category = "D" THEN RSub(safety_score, R(5, 10))
    ELSE IF medicine.pregnancy_category = "C" THEN RSub(safety_score, R(2, 10))
    ELSE safety_score

\* variant: no floor
SafetyFloor_none(safety_score) == safety_score

\* the final max(0, safety_score) of _calculate_safety_score
SafetyFloor(safety_score) == RMax0(safety_score)

\* SymptomChecker._calculate_safety_score
calculate_safety_score(medicine, conditions, age) ==
    LET afterConditions ==
            IF conditions # <<>>
            THEN ContraindicationLoop(medicine, conditions, 1, ROne)
            ELSE Return(ROne)
    IN  IF afterConditions.raised THEN afterConditions
        ELSE Return(SafetyFloor(
                PregnancyAdjustment(medicine, conditions,
                    AgeAdjustment(medicine, age, afterConditions.value))))

\* a fixed warning text, and the formatted contraindication warning
\* f"Contraindicated for {condition.name}: {contraindication.notes}"
Warning(text) == [text |-> text, condition |-> <<>>, notes |-> ""]
ContraindicationWarning(name, notes) ==
    [text |-> "Contraindicated for", condition |-> name, notes |-> notes]

\* the pregnancy warnings of _get_safety_warnings
PregnancyWarnings(medicine) ==
    IF medicine.pregnancy_category = "X"
    THEN <<Warning("DO NOT USE during pregnancy - may cause birth defects")>>
    ELSE IF medicine.pregnancy_category = "D"
    THEN <<Warning("Avoid during pregnancy - may cause harm to fetus")>>
    ELSE IF medicine.pregnancy_category = "C"
    THEN <<Warning("Use with caution during pregnancy - consult doctor")>>
    ELSE <<>>

\* the age warnings of _get_safety_warnings
AgeWarnings(medicine, age) ==
    IF TruthyAge(age) /\ age[1] < 12
    THEN IF ~TruthyText(medicine.pediatric_use)
         THEN <<Warning("Not recommended for children under 12")>> ELSE <<>>
    ELSE IF TruthyAge(age) /\ age[1] > 65
    THEN IF ~TruthyText(medicine.geriatric_use)
         THEN <<Warning("Use with caution in elderly patients")>> ELSE <<>>
    ELSE <<>>

\* the condition loop of _get_safety_warnings
RECURSIVE ConditionWarningsLoop(_, _, _, _)
ConditionWarningsLoop(medicine, conditions, i, warnings) ==
    IF i > Len(conditions) THEN Return(warnings)
    ELSE LET k == FirstCondition(conditions[i])
         IN  IF k # 0 /\ is_medicine_contraindicated(medicine.id, store.patient_conditions[k].id)
             THEN IF NameError("and_") THEN Raise("NameError")
                  ELSE LET j == FirstContraindication(medicine.id, store.patient_conditions[k].id)
                       IN  ConditionWarningsLoop(medicine, conditions, i + 1,
                              IF j # 0
                              THEN Append(warnings,
                                     ContraindicationWarning(store.patient_conditions[k].name,
                                        store.medicine_contraindications[j].notes))
                              ELSE warnings)
             ELSE ConditionWarningsLoop(medicine, conditions, i + 1, warnings)

\* SymptomChecker._get_safety_warnings
get_medicine_safety_warnings(medicine, conditions, age) ==
    LET warnings == PregnancyWarnings(medicine) \o AgeWarnings(medicine, age)
    IN  IF conditions # <<>>
        THEN ConditionWarningsLoop(medicine, conditions, 1, warnings)
        ELSE Return(warnings)

\* variant: the factors of mild and severe exchanged
SeverityMultiplier_swapped(severity) ==
    IF severity = "mild" THEN R(12, 10)
    ELSE IF severity = "severe" THEN R(8, 10)
    ELSE ROne

\* one advisory of get_safety_warnings (the texts without their warning sign)
Advisory(applies, text) == IF applies THEN <<text>> ELSE <<>>

\* SymptomChecker.get_safety_warnings
get_safety_warnings(recommendations, conditions, age) ==
    Advisory(conditions # <<>> /\ Pregnancy \in Range(conditions),
             "You are pregnant. Consult your doctor before taking any medication.")
    \o Advisory(conditions # <<>> /\ LiverDisease \in Range(conditions),
                "You have liver disease. Some medications may be harmful.")
    \o Advisory(conditions # <<>> /\ KidneyDisease \in Range(conditions),
                "You have kidney disease. Some medications may be harmful.")
    \o Advisory(TruthyAge(age) /\ age[1] < 18,
                "You are under 18. Consult a pediatrician before taking any medication.")
    \o Advisory(TruthyAge(age) /\ age[1] > 65,
                "You are over 65. Some medications may affect you differently.")

\* the severity adjustment of _calculate_medicine_score
SeverityMultiplier(severity) ==
    IF severity = "mild" THEN R(8, 10)
    ELSE IF severity = "severe" THEN R(12, 10)
    ELSE ROne

\* variant: the two weights exchanged
WeightedScore_swapped(effectiveness, safety_score) ==
    RAdd(RAdd(RZero, RMul(effectiveness, R(4, 10))), RMul(safety_score, R(6, 10)))

\* the weighted sum of _calculate_medicine_score, before the severity adjustment
WeightedScore(effectiveness, safety_score) ==
    RAdd(RAdd(RZero, RMul(effectiveness, R(6, 10))), RMul(safety_score, R(4, 10)))

\* variant: the pregnancy category is not counted against a male patient
calculate_medicine_score_byGender(medicine, symptoms, conditions, age, gender, severity) ==
    LET effectiveness == get_effectiveness_for_symptoms(medicine, symptoms)
        safety == calculate_safety_score(
                      IF gender = "male"
                      THEN [medicine EXCEPT !.pregnancy_category = None]
                      ELSE medicine,
                      conditions, age)
    IN  IF safety.raised THEN safety
        ELSE Return(RMax0(RMul(WeightedScore(effectiveness, safety.value),
                               SeverityMultiplier(severity))))

\* SymptomChecker._calculate_medicine_score
calculate_medicine_score(medicine, symptoms, conditions, age, gender, severity) ==
    LET effectiveness == get_effectiveness_for_symptoms(medicine, symptoms)
        safety == calculate_safety_score(medicine, conditions, age)
    IN  IF safety.raised THEN safety
        ELSE Return(RMax0(RMul(WeightedScore(effectiveness, safety.value),
                               SeverityMultiplier(severity))))

\* the filter `if score > 0` of get_recommendations
Positive(score) == RLess(RZero, score)

\* the loop of get_recommendations over the candidate medicines
RECURSIVE ScoringLoop(_, _, _, _, _, _, _, _)
ScoringLoop(medicines, i, symptoms, conditions, age, gender, severity, scored_medicines) ==
    IF i > Len(medicines) THEN Return(scored_medicines)
    ELSE LET medicine == medicines[i]
             score == calculate_medicine_score(medicine, symptoms, conditions,
                                               age, gender, severity)
             warnings == get_medicine_safety_warnings(medicine, conditions, age)
         IN  IF score.raised THEN score
             ELSE IF Positive(score.value)
             THEN IF warnings.raised THEN warnings
                  ELSE ScoringLoop(medicines, i + 1, symptoms, conditions, age, gender,
                          severity,
                          Append(scored_medicines,
                             [medicine |-> medicine,
                              score |-> score.value,
                              effectiveness |-> get_effectiveness_for_symptoms(medicine, symptoms),
                              safety_warnings |-> warnings.value]))
             ELSE ScoringLoop(medicines, i + 1, symptoms, conditions, age, gender,
                              severity, scored_medicines)

\* variant: x goes before the entries of equal score
RECURSIVE InsertByScore_beforeEqual(_, _)
InsertByScore_beforeEqual(sorted, x) ==
    IF sorted = <<>> THEN <<x>>
    ELSE IF RLeq(Head(sorted).score, x.score) THEN <<x>> \o sorted
    ELSE <<Head(sorted)>> \o InsertByScore_beforeEqual(Tail(sorted), x)

\* insert x into a list sorted by descending score, after the entries that
\* are not smaller (list.sort is stable)
RECURSIVE InsertByScore(_, _)
InsertByScore(sorted, x) ==
    IF sorted = <<>> THEN <<x>>
    ELSE IF RLess(Head(sorted).score, x.score) THEN <<x>> \o sorted
    ELSE <<Head(sorted)>> \o InsertByScore(Tail(sorted), x)

RECURSIVE SortLoop(_, _, _)
SortLoop(list, i, sorted) ==
    IF i > Len(list) THEN sorted
    ELSE SortLoop(list, i + 1, InsertByScore(sorted, list[i]))

\* scored_medicines.sort(key=lambda x: x['score'], reverse=True)
SortByScore(list) == SortLoop(list, 1, <<>>)

\* the cut-off of get_recommendations
TopN == 10

\* variant: the whole sorted list, no cut-off
Truncate_all(list) == list

\* scored_medicines[:10]
Truncate(list) == SubSeq(list, 1, IF Len(list) < TopN THEN Len(list) ELSE TopN)

\* what a public operation did: returned or raised, with what, and which
\* collaborator operations it invoked on the way
Done(r, invoked) == [raised |-> r.raised, value |-> r.value, calls |-> invoked]

\* variant: no early return on an empty symptom list
get_recommendations_unguarded(symptoms, conditions, age, gender, severity) ==
    LET medicines == search_medicines_by_symptoms(symptoms)
        scored == ScoringLoop(medicines, 1, symptoms, conditions, age, gender,
                              severity, <<>>)
    IN  IF medicines = <<>>
        THEN Done(Return(<<>>), {"search_medicines_by_symptoms"})
        ELSE IF scored.raised
        THEN Done(scored, {"search_medicines_by_symptoms", "_calculate_medicine_score"})
        ELSE Done(Return(Truncate(SortByScore(scored.value))),
                  {"search_medicines_by_symptoms", "_calculate_medicine_score"})

\* SymptomChecker.get_recommendations
get_recommendations(symptoms, conditions, age, gender, severity) ==
    IF symptoms = <<>> THEN Done(Return(<<>>), {})
    ELSE LET medicines == search_medicines_by_symptoms(symptoms)
             scored == ScoringLoop(medicines, 1, symptoms, conditions, age, gender,
                                   severity, <<>>)
         IN  IF medicines = <<>>
             THEN Done(Return(<<>>), {"search_medicines_by_symptoms"})
             ELSE IF scored.raised
             THEN Done(scored, {"search_medicines_by_symptoms", "_calculate_medicine_score"})
             ELSE Done(Return(Truncate(SortByScore(scored.value))),
                       {"search_medicines_by_symptoms", "_calculate_medicine_score"})

\* variant: words of 3 characters count as well
LongWord_atLeast3(word) == Len(word) >= 3

\* the words of a symptom name that are tried on their own
LongWord(word) == Len(word) > 3

\* SymptomChecker._extract_symptoms_from_text
extract_symptoms_from_text(text) ==
    LET text_lower == lower(text)
        Mentioned(symptom) ==
            LET symptom_name == lower(symptom.name)
            IN  \/ contains(text_lower, symptom_name)
                \/ \E word \in Range(split(symptom_name)) :
                      LongWord(word) /\ contains(text_lower, word)
        found == SelectSeq(store.symptoms, Mentioned)
    IN  [i \in 1..Len(found) |-> found[i].name]

\* the alternatives years? | yrs? | old of the age pattern: each matches
\* where its mandatory letters are
AgeKeywords ==
    \* "year", "yr", "old"
    <<<<121, 101, 97, 114>>, <<121, 114>>, <<111, 108, 100>>>>

\* the string w occurs in t at position k
StartsWith(t, k, w) ==
    /\ k + Len(w) - 1 <= Len(t)
    /\ \A j \in 1..Len(w) : t[k + j - 1] = w[j]

\* variant: the digits need not be followed by a keyword
AgeMatchEnds_anyInteger(t, i) ==
    { e \in i..Len(t) : \A j \in i..e : IsDigit(t[j]) }

\* the ends e of group 1 in the matches of (\d+)\s*(?:years?|yrs?|old) that
\* start at position i
AgeMatchEnds(t, i) ==
    { e \in i..Len(t) :
        /\ \A j \in i..e : IsDigit(t[j])
        /\ \E k \in (e + 1)..(Len(t) + 1) :
              /\ \A j \in (e + 1)..(k - 1) : IsSpace(t[j])
              /\ \E w \in Range(AgeKeywords) : StartsWith(t, k, w) }

\* re.search(...).group(1): the leftmost match, its digits taken greedily;
\* <<>> stands for no match
AgeSearch(t) ==
    LET start == FirstOf({ i \in 1..Len(t) : AgeMatchEnds(t, i) # {} })
        ends == AgeMatchEnds(t, start)
    IN  IF start = 0 THEN <<>>
        ELSE <<SubSeq(t, start, CHOOSE e \in ends : \A f \in ends : f <= e)>>

\* the gender cue lists, in the order they are tried
MaleCues ==
    \* "male", "man", "boy", "he", "him"
    <<<<109, 97, 108, 101>>, <<109, 97, 110>>, <<98, 111, 121>>, <<104, 101>>, <<104, 105, 109>>>>
FemaleCues ==
    \* "female", "woman", "girl", "she", "her"
    <<<<102, 101, 109, 97, 108, 101>>, <<119, 111, 109, 97, 110>>, <<103, 105, 114, 108>>, <<115, 104, 101>>, <<104, 101, 114>>>>

\* the gender branch of _extract_patient_info
ExtractGender(text) ==
    IF \E word \in Range(MaleCues) : contains(lower(text), word) THEN "male"
    ELSE IF \E word \in Range(FemaleCues) : contains(lower(text), word) THEN "female"
    ELSE None

\* the condition loop of _extract_patient_info
ExtractConditions(text) ==
    LET Mentioned(condition) == contains(lower(text), lower(condition.name))
        found == SelectSeq(store.patient_conditions, Mentioned)
    IN  [i \in 1..Len(found) |-> found[i].name]

\* SymptomChecker._extract_patient_info: the dict `info`, as its key set
\* and the value of each key (None / [] under a key that is not set)
extract_patient_info(text) ==
    LET age_match == AgeSearch(lower(text))
        gender == ExtractGender(text)
        conditions == ExtractConditions(text)
    IN  [keys |-> (IF age_match # <<>> THEN {"age"} ELSE {})
                  \cup (IF gender # None THEN {"gender"} ELSE {})
                  \cup (IF conditions # <<>> THEN {"conditions"} ELSE {}),
         age |-> IF age_match # <<>> THEN <<int(age_match[1])>> ELSE NoAge,
         gender |-> gender,
         conditions |-> conditions]

\* the cut-off of _generate_chat_response
ChatTopN == 3

\* variant: every recommendation is passed on
ChatTruncate_all(list) == list

\* recommendations[:3]
ChatTruncate(list) == SubSeq(list, 1, IF Len(list) < ChatTopN THEN Len(list) ELSE ChatTopN)

\* the four clarifying questions
ClarifyingQuestions ==
    <<"What symptoms are you experiencing?",
      "How long have you had these symptoms?",
      "Are you taking any other medications?",
      "Do you have any medical conditions I should know about?">>

\* variant: the questions are asked in every response
Questions_always(symptoms) == ClarifyingQuestions

\* response['questions']
Questions(symptoms) == IF symptoms # <<>> THEN <<>> ELSE ClarifyingQuestions

\* response['message']: the wording, with the count and the joined names
\* that the f-string puts into it
ChatMessage(symptoms, recommendations) ==
    IF symptoms # <<>>
    THEN [wording |-> IF recommendations # <<>>
                      THEN "I found {n} symptom(s): {names}. Here are some recommendations:"
                      ELSE "I found {n} symptom(s): {names}. However, I don't have specific recommendations for these symptoms. Please consult a healthcare professional.",
          n |-> Len(symptoms),
          names |-> join(symptoms)]
    ELSE [wording |-> "I didn't detect any specific symptoms in your message. Could you describe what symptoms you're experiencing?",
          n |-> 0,
          names |-> <<>>]

\* the dict `response` of _generate_chat_response, once the recommendations
\* are known
Response(symptoms, patient_info, recommendations) ==
    [message |-> ChatMessage(symptoms, recommendations),
     symptoms_found |-> symptoms,
     patient_info |-> patient_info,
     recommendations |-> ChatTruncate(recommendations),
     questions |-> Questions(symptoms)]

\* SymptomChecker._generate_chat_response; patient_info.get(key, default)
\* is the value under the key when it is set, the default otherwise, and
\* get_recommendations is called once, with these values
generate_chat_response(message, symptoms, patient_info, history) ==
    IF symptoms # <<>>
    THEN CHOOSE response \in
             { IF recommend.raised
               THEN Done(recommend, {"get_recommendations"} \cup recommend.calls)
               ELSE Done(Return(Response(symptoms, patient_info, recommend.value)),
                         {"get_recommendations"} \cup recommend.calls) :
                 recommend \in
                     { get_recommendations(symptoms, conditions, age, gender, "moderate") :
                         conditions \in {IF "conditions" \in patient_info.keys
                                         THEN patient_info.conditions ELSE <<>>},
                         age \in {IF "age" \in patient_info.keys
                                  THEN patient_info.age ELSE NoAge},
                         gender \in {IF "gender" \in patient_info.keys
                                     THEN patient_info.gender ELSE None} } } : TRUE
    ELSE Done(Return(Response(symptoms, patient_info, <<>>)), {})

\* SymptomChecker.process_chat_message: the two extractions are made once,
\* then the response is generated from their results
process_chat_message(message, history) ==
    CHOOSE response \in
        { [generate_chat_response(message, symptoms, patient_info, history)
              EXCEPT !.calls = @ \cup {"_extract_symptoms_from_text",
                                        "_extract_patient_info",
                                        "_generate_chat_response"}] :
            symptoms \in {extract_symptoms_from_text(message)},
            patient_info \in {extract_patient_info(message)} } : TRUE

(***************************************************************************)
(* MedicineService.get_medicines_by_condition                              *)
(***************************************************************************)
\* the medicine ids of the contraindication rows of a condition
ContraindicatedIds(condition_id) ==
    { store.medicine_contraindications[i].medicine_id :
        i \in { j \in 1..Len(store.medicine_contraindications) :
                  store.medicine_contraindications[j].condition_id = condition_id } }

\* variant: Medicine.id.in_ instead of notin_
get_medicines_by_condition_contraindicated(condition_name) ==
    LET k == FirstCondition(condition_name)
        contraindicated_ids == ContraindicatedIds(store.patient_conditions[k].id)
        IdIn(m) == m.id \in contraindicated_ids
    IN  IF k = 0 THEN <<>>
        ELSE IF contraindicated_ids # {} THEN SelectSeq(store.medicines, IdIn)
        ELSE store.medicines

\* MedicineService.get_medicines_by_condition
get_medicines_by_condition(condition_name) ==
    LET k == FirstCondition(condition_name)
        contraindicated_ids == ContraindicatedIds(store.patient_conditions[k].id)
        IdNotIn(m) == m.id \notin contraindicated_ids
    IN  IF k = 0 THEN <<>>
        ELSE IF contraindicated_ids # {} THEN SelectSeq(store.medicines, IdNotIn)
        ELSE store.medicines

(***************************************************************************)
(* TabletRecognitionService.identify_tablet.  The image, the classifier    *)
(* and the accessor's database are the service's environment: the image    *)
(* is readable or not, self.model is loaded or None, model.predict raises  *)
(* or returns predictions[0], self.label_encoder is None or gives the name *)
(* of each class index, and the name lookup raises or answers.             *)
(***************************************************************************)
\* MedicineService.get_medicine_by_name: the first medicine whose brand or
\* generic name contains the name, case ignored (a NULL brand name matches
\* nothing); the result is optional: <<>> is None, <<m>> the medicine m
get_medicine_by_name(name) ==
    LET k == FirstOf({ i \in 1..Len(store.medicines) :
                        \/ /\ store.medicines[i].brand_name # None
                           /\ ilike(store.medicines[i].brand_name, name)
                        \/ ilike(store.medicines[i].generic_name, name) })
    IN  IF k = 0 THEN <<>> ELSE <<store.medicines[k]>>

\* np.argmax: the first position of the greatest value (positions from 1)
argmax(predictions) ==
    CHOOSE i \in 1..Len(predictions) :
        /\ \A j \in 1..Len(predictions) : RLeq(predictions[j], predictions[i])
        /\ \A j \in 1..(i - 1) : RLess(predictions[j], predictions[i])

\* an optional medicine id: <<>> is None, <<id>> is the id
NoId == <<>>

\* the result returned on a failure path (it has no all_predictions)
FailureResult(error) ==
    [success |-> FALSE, error |-> error, medicine_id |-> NoId,
     confidence |-> RZero, medicine_name |-> Unknown, all_predictions |-> None]

\* the result returned after a prediction (it has no error)
SuccessResult(medicine_id, confidence, medicine_name, all_predictions) ==
    [success |-> TRUE, error |-> None, medicine_id |-> medicine_id,
     confidence |-> confidence, medicine_name |-> medicine_name,
     all_predictions |-> all_predictions]

\* the medicine_name reported after the lookup: the label, whatever the
\* lookup found
LabelOf(medicine_name, medicine) == medicine_name

\* the multi-class branch: the label of the predicted class, then the lookup
MultiClass(predictions, label_encoder, lookup_ok) ==
    IF label_encoder = None THEN Raise("AttributeError")
    ELSE LET predicted_class_idx == argmax(predictions)
             confidence == predictions[predicted_class_idx]
             medicine_name == IF predicted_class_idx <= Len(label_encoder)
                              THEN label_encoder[predicted_class_idx] ELSE None
         IN  IF medicine_name # None /\ medicine_name # <<>> /\ medicine_name # Unknown
             THEN IF ~lookup_ok THEN Raise("OperationalError")
                  ELSE LET medicine == get_medicine_by_name(medicine_name)
                       IN  Return(SuccessResult(
                                    IF medicine # <<>> THEN <<medicine[1].id>> ELSE NoId,
                                    confidence, LabelOf(medicine_name, medicine),
                                    predictions))
             ELSE Return(SuccessResult(NoId, confidence, Unknown, predictions))

\* the body of the try block after the two early returns: predict raises
\* ("raises"), or predictions[0] is empty, has one value (the dummy binary
\* model) or several
Predict(predictions, label_encoder, lookup_ok) ==
    IF predictions = "raises" THEN Raise("InvalidArgumentError")
    ELSE IF Len(predictions) > 1 THEN MultiClass(predictions, label_encoder, lookup_ok)
    ELSE IF Len(predictions) = 0 THEN Raise("IndexError")
    ELSE Return(SuccessResult(NoId, predictions[1], Unknown,
                              <<predictions[1], RSub(ROne, predictions[1])>>))

\* variant: the exception goes on to the caller
Except_reraise(r) == r

\* except Exception as e: the failure result with str(e)
Except(r) == IF r.raised THEN Return(FailureResult(r.value)) ELSE r

\* TabletRecognitionService.identify_tablet; preprocess_image returns None
\* when the image cannot be loaded
identify_tablet(image_ok, model_loaded, predictions, label_encoder, lookup_ok) ==
    Except(IF ~image_ok THEN Return(FailureResult("Failed to process image"))
           ELSE IF ~model_loaded THEN Return(FailureResult("Model not loaded"))
           ELSE Predict(predictions, label_encoder, lookup_ok))

(***************************************************************************)
(* Requests                                                                *)
(***************************************************************************)
\* the sequences over S of length at most n
SeqUpTo(S, n) == UNION { [1..k -> S] : k \in 0..n }

\* symptom terms: exact stored names, a differently cased one, a fragment,
\* an unknown one
RequestSymptomTerms == {Fever, Headache, Cough}
SearchTerms == RequestSymptomTerms \cup {fever, Fev}
\* condition terms: stored names and an unknown one; an absent condition
\* list (None) is the empty list, `if conditions:` treats both alike
RequestConditionTerms == {Pregnancy, Asthma}
ConditionTerms == RequestConditionTerms \cup {Diabetes}
\* requests naming the symptoms whose names overlap
PainLists == {<<Pain>>, <<ChestPain>>, <<Pain, ChestPain>>}
SymptomLists == SeqUpTo(RequestSymptomTerms, MaxSymptoms) \cup PainLists
SearchLists == SeqUpTo(SearchTerms, MaxSymptoms)
RequestConditionLists == SeqUpTo(RequestConditionTerms, MaxRequestConditions)
ConditionLists == SeqUpTo(ConditionTerms, MaxConditions)
Ages == {NoAge, <<0>>, <<5>>, <<11>>, <<12>>, <<30>>, <<65>>, <<66>>}
RequestAges == {NoAge, <<5>>, <<30>>, <<70>>}
Genders == {None, "male", "female"}
\* the requests given to the scorer of one medicine
ScoreSymptomLists == SeqUpTo({Fever, Headache}, MaxSymptoms)
ScoreAges == {NoAge, <<5>>}
ScoreGenders == {None, "female"}
\* the requests given to the safety overview: condition names it looks for,
\* ages around its two thresholds, and recommendation lists (it reads none)
OverviewConditionLists ==
    SeqUpTo({Pregnancy, LiverDisease, KidneyDisease}, MaxOverviewConditions)
OverviewAges == {NoAge, <<0>>, <<17>>, <<18>>, <<65>>, <<66>>, <<70>>}
OverviewRecommendations ==
    { <<>>,
      <<[medicine |-> [id |-> 1], safety_warnings |-> <<"Test warning">>]>> }

\* "preg"
preg == <<112, 114, 101, 103>>

\* the condition names given to get_medicines_by_condition: stored names,
\* an unknown one, a lower-case fragment, a letter two stored names share,
\* and the empty name
ConditionNames == {Pregnancy, Diabetes, Asthma, preg, <<101>>, <<>>}

\* "test generic 2"
testGeneric2 == <<116, 101, 115, 116, 32, 103, 101, 110, 101, 114, 105, 99, 32, 50>>

\* the outcomes of model.predict: an exception, or predictions[0] with no,
\* one (binary dummy model), two or three class probabilities
Predictions ==
    { "raises", <<>>, <<R(7, 10)>>, <<R(1, 10), R(9, 10)>>,
      <<R(6, 10), R(3, 10), R(1, 10)>>, <<R(2, 10), R(2, 10), R(6, 10)>> }
\* the label encoders: none, the names of stored medicines (one in lower
\* case), and the labels of an older database with the dummy label and an
\* empty one
LabelEncoders ==
    { None,
      <<TestMedicine \o str(1), testGeneric2>>,
      <<Aspirin, Unknown, <<>>>> }

\* the chat messages: the examples of the tests, and messages with each
\* kind of age, gender, condition and symptom mention
\* "I have a fever and headache"
FeverAndHeadache ==
    <<73, 32, 104, 97, 118, 101, 32, 97, 32, 102, 101, 118, 101, 114, 32, 97,
      110, 100, 32, 104, 101, 97, 100, 97, 99, 104, 101>>

\* "I am a 25 year old male with diabetes"
MaleWithDiabetes ==
    <<73, 32, 97, 109, 32, 97, 32, 50, 53, 32, 121, 101, 97, 114, 32, 111,
      108, 100, 32, 109, 97, 108, 101, 32, 119, 105, 116, 104, 32, 100, 105,
      97, 98, 101, 116, 101, 115>>

\* "she has a cough"
SheHasACough ==
    <<115, 104, 101, 32, 104, 97, 115, 32, 97, 32, 99, 111, 117, 103, 104>>

\* "girl 5 yrs old, FEVER"
GirlWithFever ==
    <<103, 105, 114, 108, 32, 53, 32, 121, 114, 115, 32, 111, 108, 100, 44,
      32, 70, 69, 86, 69, 82>>

\* "my throat is dry"
DryThroat ==
    <<109, 121, 32, 116, 104, 114, 111, 97, 116, 32, 105, 115, 32, 100, 114,
      121>>

\* "took 2 pills, now 70 years, fever in pregnancy"
PillsAndPregnancy ==
    <<116, 111, 111, 107, 32, 50, 32, 112, 105, 108, 108, 115, 44, 32, 110,
      111, 119, 32, 55, 48, 32, 121, 101, 97, 114, 115, 44, 32, 102, 101,
      118, 101, 114, 32, 105, 110, 32, 112, 114, 101, 103, 110, 97, 110, 99,
      121>>

\* ""
NoText == <<>>

\* "diabetes and pregnancy, headache"
TwoConditions ==
    <<100, 105, 97, 98, 101, 116, 101, 115, 32, 97, 110, 100, 32, 112, 114,
      101, 103, 110, 97, 110, 99, 121, 44, 32, 104, 101, 97, 100, 97, 99,
      104, 101>>

\* "Female, 30 yrs"
FemaleThirty ==
    <<70, 101, 109, 97, 108, 101, 44, 32, 51, 48, 32, 121, 114, 115>>

\* "a boy and a girl"
BoyAndGirl ==
    <<97, 32, 98, 111, 121, 32, 97, 110, 100, 32, 97, 32, 103, 105, 114, 108>>

\* "my dry eye hurts"
DryEyeHurts ==
    <<109, 121, 32, 100, 114, 121, 32, 101, 121, 101, 32, 104, 117, 114, 116, 115>>

Messages ==
    {FeverAndHeadache, MaleWithDiabetes, SheHasACough, GirlWithFever,
     DryThroat, PillsAndPregnancy, NoText, TwoConditions,
     FemaleThirty, BoyAndGirl, DryEyeHurts}
\* the earlier turns of the conversation handed to process_chat_message
\* (an absent history is the empty one)
Histories == {<<>>, <<SheHasACough>>}

(***************************************************************************)
(* The state machine: a store, and the last call made on the engine with   *)
(* its arguments and what came of it                                       *)
(***************************************************************************)
\* the threads of the web server that call the one engine of the application
NThreads == 2
Threads == 1..NThreads

\* a thread that is serving no request
IdleThread ==
    [pc |-> "idle", request |-> <<>>, call |-> <<>>, symptoms |-> <<>>,
     patient_info |-> <<>>, medicines |-> <<>>, i |-> 0, score |-> RZero,
     outcome |-> "none", result |-> <<>>, overlapped |-> FALSE]

\* no request is being served
NoRequests ==
    /\ threads = [t \in Threads |-> IdleThread]
    /\ scratch = [t \in Threads |-> <<>>]
    /\ earlier = {}

Init ==
    /\ store \in Stores
    /\ op = "none"
    /\ args = <<>>
    /\ outcome = "none"
    /\ ret = <<>>
    /\ calls = {}
    /\ NoRequests

\* variant: a chat request leaves the effectiveness edges deleted
StoreAfter_edgesDeleted(name, s) ==
    IF name = "process_chat_message" THEN [s EXCEPT !.medicine_symptoms = <<>>]
    ELSE s

\* the store after the operation `name`: every operation of the engine and
\* of the accessor only queries the session (query(...).filter(...).all()
\* or .first()); none adds, deletes, flushes or commits
StoreAfter(name, s) == s

\* record the call `name(a)` and its result r
Finish(name, a, r, invoked) ==
    /\ op' = name
    /\ args' = a
    /\ outcome' = IF r.raised THEN "raised" ELSE "returned"
    /\ ret' = r.value
    /\ calls' = invoked
    /\ store' = StoreAfter(name, store)
    /\ UNCHANGED <<threads, scratch, earlier>>

\* a call of SymptomChecker.get_recommendations
GetRecommendations ==
    /\ op = "none"
    /\ \E symptoms \in SymptomLists, conditions \in RequestConditionLists,
       age \in RequestAges, gender \in Genders, severity \in Severities :
        LET r == get_recommendations(symptoms, conditions, age, gender, severity)
        IN  Finish("get_recommendations",
                   [symptoms |-> symptoms, conditions |-> conditions, age |-> age,
                    gender |-> gender, severity |-> severity],
                   r, r.calls)

\* a call of MedicineService.search_medicines_by_symptoms
SearchMedicinesBySymptoms ==
    /\ op = "none"
    /\ \E symptoms \in SearchLists :
        Finish("search_medicines_by_symptoms", [symptoms |-> symptoms],
               Return(search_medicines_by_symptoms(symptoms)), {})

\* a call of SymptomChecker._calculate_safety_score
CalculateSafetyScore ==
    /\ op = "none"
    /\ \E m \in 1..Len(store.medicines), conditions \in ConditionLists, age \in Ages :
        Finish("_calculate_safety_score",
               [medicine |-> store.medicines[m], conditions |-> conditions, age |-> age],
               calculate_safety_score(store.medicines[m], conditions, age), {})

\* a call of SymptomChecker._get_safety_warnings
GetMedicineSafetyWarnings ==
    /\ op = "none"
    /\ \E m \in 1..Len(store.medicines), conditions \in ConditionLists, age \in Ages :
        Finish("_get_safety_warnings",
               [medicine |-> store.medicines[m], conditions |-> conditions, age |-> age],
               get_medicine_safety_warnings(store.medicines[m], conditions, age), {})

\* a call of SymptomChecker._get_effectiveness_for_symptoms
GetEffectivenessForSymptoms ==
    /\ op = "none"
    /\ \E m \in 1..Len(store.medicines), symptoms \in SearchLists :
        Finish("_get_effectiveness_for_symptoms",
               [medicine |-> store.medicines[m], symptoms |-> symptoms],
               Return(get_effectiveness_for_symptoms(store.medicines[m], symptoms)), {})

\* a call of SymptomChecker._calculate_medicine_score
CalculateMedicineScore ==
    /\ op = "none"
    /\ \E m \in 1..Len(store.medicines), symptoms \in ScoreSymptomLists,
          conditions \in RequestConditionLists, age \in ScoreAges,
          gender \in ScoreGenders, severity \in Severities :
        Finish("_calculate_medicine_score",
               [medicine |-> store.medicines[m], symptoms |-> symptoms,
                conditions |-> conditions, age |-> age, gender |-> gender,
                severity |-> severity],
               calculate_medicine_score(store.medicines[m], symptoms, conditions,
                                        age, gender, severity), {})

\* a call of SymptomChecker.get_safety_warnings
GetSafetyWarnings ==
    /\ op = "none"
    /\ \E recommendations \in OverviewRecommendations,
          conditions \in OverviewConditionLists, age \in OverviewAges :
        Finish("get_safety_warnings",
               [recommendations |-> recommendations, conditions |-> conditions,
                age |-> age],
               Return(get_safety_warnings(recommendations, conditions, age)), {})

\* a call of SymptomChecker._extract_symptoms_from_text
ExtractSymptomsFromText ==
    /\ op = "none"
    /\ \E text \in Messages :
        Finish("_extract_symptoms_from_text", [text |-> text],
               Return(extract_symptoms_from_text(text)), {})

\* a call of SymptomChecker._extract_patient_info
ExtractPatientInfo ==
    /\ op = "none"
    /\ \E text \in Messages :
        Finish("_extract_patient_info", [text |-> text],
               Return(extract_patient_info(text)), {})

\* a call of SymptomChecker.process_chat_message
ProcessChatMessage ==
    /\ op = "none"
    /\ \E message \in Messages, history \in Histories :
        \E r \in {process_chat_message(message, history)} :
            Finish("process_chat_message", [message |-> message, history |-> history],
                   r, r.calls)

\* a call of MedicineService.get_medicines_by_condition
GetMedicinesByCondition ==
    /\ op = "none"
    /\ \E condition_name \in ConditionNames :
        Finish("get_medicines_by_condition", [condition_name |-> condition_name],
               Return(get_medicines_by_condition(condition_name)), {})

\* a call of TabletRecognitionService.identify_tablet
IdentifyTablet ==
    /\ op = "none"
    /\ \E image_ok \in BOOLEAN, model_loaded \in BOOLEAN, predictions \in Predictions,
          label_encoder \in LabelEncoders, lookup_ok \in BOOLEAN :
        Finish("identify_tablet",
               [image_ok |-> image_ok, model_loaded |-> model_loaded,
                predictions |-> predictions, label_encoder |-> label_encoder,
                lookup_ok |-> lookup_ok],
               identify_tablet(image_ok, model_loaded, predictions, label_encoder,
                               lookup_ok), {})

\* the caller has consumed the response; the request context is discarded
Discard ==
    /\ op # "none"
    /\ op' = "none"
    /\ args' = <<>>
    /\ outcome' = "none"
    /\ ret' = <<>>
    /\ calls' = {}
    /\ UNCHANGED <<store, threads, scratch, earlier>>

Next ==
    \/ Discard
    \/ GetRecommendations
    \/ SearchMedicinesBySymptoms
    \/ CalculateSafetyScore
    \/ GetMedicineSafetyWarnings
    \/ GetEffectivenessForSymptoms
    \/ CalculateMedicineScore
    \/ GetSafetyWarnings
    \/ ExtractSymptomsFromText
    \/ ExtractPatientInfo
    \/ ProcessChatMessage
    \/ GetMedicinesByCondition
    \/ IdentifyTablet

Spec == Init /\ [][Next]_vars

(***************************************************************************)
(* The engine under requests: app.py makes one SymptomChecker for the      *)
(* application, and every request thread calls it. A request is run one    *)
(* collaborator call at a time, so that the calls of different requests    *)
(* interleave between the lookups                                          *)
(***************************************************************************)
\* the fixture with a contraindication of its second medicine for Pregnancy
ClinicStore ==
    MkStore(FixtureMedicines, FixtureEdges,
            <<MedicineContraindication(2, 1, "severe", "may harm the fetus")>>)

ServedStores == {ClinicStore}

\* the arguments of one call of get_recommendations
Call(symptoms, conditions, age, gender, severity) ==
    [symptoms |-> symptoms, conditions |-> conditions, age |-> age,
     gender |-> gender, severity |-> severity]

\* the requests of the routes /api/recommend (get_recommendations, and
\* get_safety_warnings for the overview) and /api/chat
RecommendRequest(call) ==
    [kind |-> "recommend", call |-> call, message |-> <<>>, history |-> <<>>]
OverviewRequest(call) ==
    [kind |-> "overview", call |-> call, message |-> <<>>, history |-> <<>>]
RespondRequest(message, history) ==
    [kind |-> "respond", call |-> <<>>, message |-> message, history |-> history]

\* the conversation histories of the chat requests: none, and one whose
\* turn names symptoms
ServedHistories == {<<>>, <<FeverAndHeadache>>}

ServedRequests ==
    { RecommendRequest(Call(<<Fever, Headache>>, <<>>, NoAge, None, "moderate")),
      RecommendRequest(Call(<<Headache>>, <<Pregnancy>>, <<5>>, "female", "severe")),
      OverviewRequest(Call(<<>>, <<Pregnancy>>, <<70>>, None, "moderate")) }
    \cup { RespondRequest(message, history) :
             message \in {FeverAndHeadache, BoyAndGirl},
             history \in ServedHistories }

\* variant: the list of scored medicines is kept on the engine
Slot_onEngine(t) == 1

\* where the list scored_medicines of the request of thread t lives: it is
\* a local variable of the call, one for each call
Slot(t) == t

\* variant: the earlier turns are read together with the message
ChatText_withHistory(message, history) ==
    IF history = <<>> THEN message ELSE history[Len(history)] \o <<32>> \o message

\* the text that process_chat_message hands to the two extractions: the
\* message; conversation_history is not read
ChatText(message, history) == message

\* the arguments with which _generate_chat_response calls get_recommendations
ChatCall(symptoms, patient_info) ==
    Call(symptoms,
         IF "conditions" \in patient_info.keys THEN patient_info.conditions ELSE <<>>,
         IF "age" \in patient_info.keys THEN patient_info.age ELSE NoAge,
         IF "gender" \in patient_info.keys THEN patient_info.gender ELSE None,
         "moderate")

\* another thread is in the middle of a request
Busy(t) == \E u \in Threads \ {t} : threads[u].pc \notin {"idle", "done"}

\* thread t moves on, and notes whether a step of its request was taken
\* while another request was under way; the request contexts of the
\* last-call machine stay empty
Step(t, thread, lists) ==
    /\ threads' = [threads EXCEPT ![t] =
                      [thread EXCEPT !.overlapped = thread.pc # "idle" /\ (@ \/ Busy(t))]]
    /\ scratch' = lists
    /\ UNCHANGED <<store, op, args, outcome, ret, calls>>

\* the request of thread t ends by raising error
Fail(t, error, lists) ==
    Step(t, [threads[t] EXCEPT !.pc = "done", !.outcome = "raised", !.result = error],
         lists)

\* get_recommendations returns list to the request of thread t: the route
\* /api/recommend answers with it, _generate_chat_response builds the
\* response around it
Deliver(t, list, lists) ==
    Step(t, [threads[t] EXCEPT
                !.pc = "done", !.outcome = "returned",
                !.result = IF threads[t].request.kind = "respond"
                           THEN Response(threads[t].symptoms,
                                         threads[t].patient_info, list)
                           ELSE list],
         lists)

\* the loop of get_recommendations goes to the next candidate, or to the sort
Advance(t, thread, lists) ==
    Step(t, [thread EXCEPT !.i = @ + 1,
                           !.pc = IF thread.i + 1 > Len(thread.medicines)
                                  THEN "sort" ELSE "score"],
         lists)

\* a thread takes a request
AcceptRequest(t) ==
    /\ threads[t].pc = "idle"
    /\ \E request \in ServedRequests :
          Step(t, [IdleThread EXCEPT !.pc = request.kind, !.request = request,
                                     !.call = request.call],
               scratch)

\* process_chat_message: the two extractions; without symptoms the response
\* is generated at once, with symptoms get_recommendations is called
ExtractStep(t) ==
    /\ threads[t].pc = "respond"
    /\ \E text \in {ChatText(threads[t].request.message, threads[t].request.history)} :
       \E symptoms \in {extract_symptoms_from_text(text)},
          patient_info \in {extract_patient_info(text)} :
          IF symptoms = <<>>
          THEN Step(t, [threads[t] EXCEPT
                           !.pc = "done", !.outcome = "returned",
                           !.symptoms = symptoms, !.patient_info = patient_info,
                           !.result = Response(symptoms, patient_info, <<>>)],
                    scratch)
          ELSE Step(t, [threads[t] EXCEPT
                           !.pc = "recommend",
                           !.symptoms = symptoms, !.patient_info = patient_info,
                           !.call = ChatCall(symptoms, patient_info)],
                    scratch)

\* get_recommendations up to the loop: the guard on the symptoms, the
\* candidate search, and the fresh list scored_medicines
SearchStep(t) ==
    /\ threads[t].pc = "recommend"
    /\ IF threads[t].call.symptoms = <<>> THEN Deliver(t, <<>>, scratch)
       ELSE \E medicines \in {search_medicines_by_symptoms(threads[t].call.symptoms)} :
               IF medicines = <<>> THEN Deliver(t, <<>>, scratch)
               ELSE Step(t, [threads[t] EXCEPT !.pc = "score", !.medicines = medicines,
                                               !.i = 1],
                         [scratch EXCEPT ![Slot(t)] = <<>>])

\* one call of _calculate_medicine_score in the loop
ScoreStep(t) ==
    /\ threads[t].pc = "score"
    /\ \E score \in {calculate_medicine_score(threads[t].medicines[threads[t].i],
                        threads[t].call.symptoms, threads[t].call.conditions,
                        threads[t].call.age, threads[t].call.gender,
                        threads[t].call.severity)} :
          IF score.raised THEN Fail(t, score.value, scratch)
          ELSE IF Positive(score.value)
          THEN Step(t, [threads[t] EXCEPT !.pc = "entry", !.score = score.value],
                    scratch)
          ELSE Advance(t, threads[t], scratch)

\* the entry of a medicine with a positive score: its effectiveness and its
\* warnings are looked up and the entry is appended to scored_medicines
EntryStep(t) ==
    /\ threads[t].pc = "entry"
    /\ \E medicine \in {threads[t].medicines[threads[t].i]} :
       \E warnings \in {get_medicine_safety_warnings(medicine,
                           threads[t].call.conditions, threads[t].call.age)} :
          IF warnings.raised THEN Fail(t, warnings.value, scratch)
          ELSE Advance(t, threads[t],
                  [scratch EXCEPT ![Slot(t)] =
                      Append(@, [medicine |-> medicine,
                                 score |-> threads[t].score,
                                 effectiveness |->
                                     get_effectiveness_for_symptoms(medicine,
                                         threads[t].call.symptoms),
                                 safety_warnings |-> warnings.value])])

\* the sort and the cut that end get_recommendations; the list of the call
\* is dropped with its frame
SortStep(t) ==
    /\ threads[t].pc = "sort"
    /\ Deliver(t, Truncate(SortByScore(scratch[Slot(t)])),
               [scratch EXCEPT ![Slot(t)] = <<>>])

\* get_safety_warnings for the overview of a request
OverviewStep(t) ==
    /\ threads[t].pc = "overview"
    /\ Step(t, [threads[t] EXCEPT
                   !.pc = "done", !.outcome = "returned",
                   !.result = get_safety_warnings(<<>>, threads[t].call.conditions,
                                                  threads[t].call.age)],
            scratch)

\* the route has sent the answer; the thread is free again
Reply(t) ==
    /\ threads[t].pc = "done"
    /\ Step(t, IdleThread, scratch)

Serve(t) ==
    \/ AcceptRequest(t)
    \/ ExtractStep(t)
    \/ SearchStep(t)
    \/ ScoreStep(t)
    \/ EntryStep(t)
    \/ SortStep(t)
    \/ OverviewStep(t)
    \/ Reply(t)

ServiceInit ==
    /\ store \in ServedStores
    /\ op = "none"
    /\ args = <<>>
    /\ outcome = "none"
    /\ ret = <<>>
    /\ calls = {}
    /\ NoRequests

\* the kinds of request that have been answered so far
Answered(t) ==
    IF threads[t].pc # "done" /\ threads'[t].pc = "done"
    THEN earlier \cup {threads[t].request.kind} ELSE earlier

\* one thread: the requests are served one after the other
SessionNext == Serve(1) /\ earlier' = Answered(1)

Session == ServiceInit /\ [][SessionNext]_vars

\* all threads: the steps of the requests interleave
ConcurrentNext == \E t \in Threads : Serve(t) /\ UNCHANGED earlier

Concurrent == ServiceInit /\ [][ConcurrentNext]_vars

\* what a request returns when it is the only one running: the operation
\* of the engine as a whole
Alone(request) ==
    IF request.kind = "recommend"
    THEN get_recommendations(request.call.symptoms, request.call.conditions,
                             request.call.age, request.call.gender,
                             request.call.severity)
    ELSE IF request.kind = "respond"
    THEN process_chat_message(request.message, request.history)
    ELSE Return(get_safety_warnings(<<>>, request.call.conditions, request.call.age))

(***************************************************************************)
(* Properties                                                              *)
(***************************************************************************)
Recommended == op = "get_recommendations" /\ outcome = "returned"

\* C1: get_recommendations called with an empty symptom list returns the
\* empty list, whatever the store, conditions, age, gender and severity
\* are, without calling the candidate lookup and without raising.
C1_EmptySymptoms ==
    (op = "get_recommendations" /\ args.symptoms = <<>>)
        => /\ outcome = "returned"
           /\ ret = <<>>
           /\ "search_medicines_by_symptoms" \notin calls

\* an empty-symptom request with conditions, an age and a gender, on a
\* store that has contraindication rows
C1_Witness ==
    /\ op = "get_recommendations"
    /\ args.symptoms = <<>>
    /\ args.conditions = <<Pregnancy>>
    /\ args.age = <<5>>
    /\ args.gender = "female"
    /\ args.severity = "severe"
    /\ store.medicine_contraindications # <<>>
    /\ outcome = "returned"

\* C2: the list returned by get_recommendations is sorted by non-increasing
\* score, has at most 10 entries, and every entry has a score > 0.
C2_SortedTopTenPositive ==
    Recommended =>
        /\ Len(ret) <= TopN
        /\ \A i \in 1..Len(ret) : RLess(RZero, ret[i].score)
        /\ \A i \in 1..Len(ret) : \A j \in i..Len(ret) :
              RLeq(ret[j].score, ret[i].score)

\* more than 10 candidates were retrieved, 10 entries with different scores
\* were returned
C2_Witness ==
    /\ Recommended
    /\ Len(search_medicines_by_symptoms(args.symptoms)) > TopN
    /\ Len(ret) = TopN
    /\ RLess(ret[TopN].score, ret[1].score)

\* the severity multiplier as claimed
C3_Multiplier(severity) ==
    IF severity = "mild" THEN R(4, 5)
    ELSE IF severity = "severe" THEN R(6, 5)
    ELSE ROne

\* the medicine of the example: 0.9 for Fever, no contraindication, no category
C3_Scenario(m) ==
    /\ m.pregnancy_category = None
    /\ \A c \in Range(store.medicine_contraindications) : c.medicine_id # m.id
    /\ \E s \in Range(store.symptoms) :
          /\ s.name = Fever
          /\ get_medicine_effectiveness(m.id, s.id) = R(9, 10)
          /\ \E e \in Range(store.medicine_symptoms) :
                e.medicine_id = m.id /\ e.symptom_id = s.id /\ ~e.contraindicated

C4_Matching(symptoms) ==
    { m \in Range(store.medicines) :
        \E e \in Range(store.medicine_symptoms), s \in Range(store.symptoms) :
            /\ e.medicine_id = m.id
            /\ ~e.contraindicated
            /\ e.symptom_id = s.id
            /\ \E t \in Range(symptoms) : ilike(s.name, t) }

C4_SearchBySubstring ==
    op = "search_medicines_by_symptoms"
        => outcome = "returned" /\ Range(ret) = C4_Matching(args.symptoms)

\* the sum of the penalties of the supplied conditions that resolve to a
\* stored condition with a contraindication row for the medicine
RECURSIVE C5_Penalties(_, _, _)
C5_Penalties(medicine, conditions, i) ==
    IF i > Len(conditions) THEN RZero
    ELSE LET k == FirstCondition(conditions[i])
             j == IF k = 0 THEN 0
                  ELSE FirstContraindication(medicine.id, store.patient_conditions[k].id)
             severity == store.medicine_contraindications[j].severity
         IN  RAdd(IF j = 0 THEN RZero
                  ELSE IF severity = "severe" THEN ROne
                  ELSE IF severity = "moderate" THEN R(1, 2)
                  ELSE IF severity = "mild" THEN R(1, 5)
                  ELSE RZero,
                  C5_Penalties(medicine, conditions, i + 1))

\* C5: the safety score starts at 1.0, loses 1.0 / 0.5 / 0.2 for every
\* supplied condition that resolves to a stored condition with a severe /
\* moderate / mild contraindication row for the medicine, the reductions
\* adding up, and is floored at 0.0 (stated for calls without an age on
\* medicines of pregnancy category null, A or B, where nothing else is
\* subtracted).
C5_ContraindicationPenalties ==
    (/\ op = "_calculate_safety_score"
     /\ args.age = NoAge
     /\ args.medicine.pregnancy_category \in {None, "A", "B"})
        => /\ outcome = "returned"
           /\ ret = RMax0(RSub(ROne, C5_Penalties(args.medicine, args.conditions, 1)))

\* C6: recommend, safety_overview and respond always return and never
\* raise, also for names that match nothing and for conditions that resolve
\* to a stored condition contraindicating a candidate.
C6_NeverRaises ==
    op \in {"get_recommendations", "get_safety_warnings", "process_chat_message"}
        => outcome = "returned"

\* C7: the safety score lies in [0, 1], and is exactly 1.0 without
\* conditions, without an age, for pregnancy category null, A or B.
C7_SafetyRange ==
    (op = "_calculate_safety_score" /\ outcome = "returned")
        => /\ RLeq(RZero, ret)
           /\ RLeq(ret, ROne)
           /\ (/\ args.conditions = <<>>
               /\ args.age = NoAge
               /\ args.medicine.pregnancy_category \in {None, "A", "B"})
              => ret = ROne

\* a category X medicine without pediatric guidance scored for a child with
\* two stored conditions: the penalties exceed 1.0 and the score is 0
C7_Witness ==
    /\ op = "_calculate_safety_score"
    /\ outcome = "returned"
    /\ args.medicine.pregnancy_category = "X"
    /\ ~TruthyText(args.medicine.pediatric_use)
    /\ args.age = <<5>>
    /\ args.conditions = <<Pregnancy, Diabetes>>
    /\ store.medicine_contraindications # <<>>
    /\ ret = RZero

\* the reduction for the pregnancy category
C9_Reduction(category) ==
    IF category = "X" THEN R(4, 5)
    ELSE IF category = "D" THEN R(1, 2)
    ELSE IF category = "C" THEN R(1, 5)
    ELSE RZero

\* the age reduction as claimed: 0.3 below 12 without pediatric guidance,
\* 0.2 above 65 without geriatric guidance, for every supplied age
C8_Reduction(medicine, age) ==
    IF age = NoAge THEN RZero
    ELSE IF age[1] < 12 /\ ~TruthyText(medicine.pediatric_use) THEN R(3, 10)
    ELSE IF age[1] > 65 /\ ~TruthyText(medicine.geriatric_use) THEN R(1, 5)
    ELSE RZero

\* C8: for every supplied age, 0 included, the safety score is reduced by
\* 0.3 exactly when age < 12 and no pediatric guidance is recorded, by 0.2
\* exactly when age > 65 and no geriatric guidance is recorded; ages 12..65
\* and an absent age cause no reduction (stated for calls without conditions).
C8_AgeReduction ==
    (op = "_calculate_safety_score" /\ outcome = "returned" /\ args.conditions = <<>>)
        => ret = RMax0(RSub(RSub(ROne, C8_Reduction(args.medicine, args.age)),
                            C9_Reduction(args.medicine.pregnancy_category)))

\* C9: the pregnancy-category reduction (X 0.8, D 0.5, C 0.2, A/B/null
\* none) depends on the category alone: it is subtracted from the score
\* reached after the condition and age steps whether or not "Pregnancy" is
\* among the conditions and whatever the age is (gender is not an input).
C9_PregnancyReduction ==
    (op = "_calculate_safety_score" /\ outcome = "returned")
        => ret = RMax0(RSub(AgeAdjustment(args.medicine, args.age,
                                RSub(ROne, C5_Penalties(args.medicine, args.conditions, 1))),
                            C9_Reduction(args.medicine.pregnancy_category)))

\* a category X medicine scored for an adult without "Pregnancy" among the
\* conditions: 0.8 is subtracted all the same
C9_Witness ==
    /\ op = "_calculate_safety_score"
    /\ outcome = "returned"
    /\ args.medicine.pregnancy_category = "X"
    /\ args.age = <<30>>
    /\ args.conditions = <<Diabetes, Asthma>>
    /\ store.medicine_contraindications # <<>>
    /\ ret = R(1, 5)

\* the warnings as claimed: pregnancy category, then age, then one per
\* contraindicated condition in the order supplied
RECURSIVE C10_ConditionWarnings(_, _, _)
C10_ConditionWarnings(medicine, conditions, i) ==
    IF i > Len(conditions) THEN <<>>
    ELSE LET k == FirstCondition(conditions[i])
             j == IF k = 0 THEN 0
                  ELSE FirstContraindication(medicine.id, store.patient_conditions[k].id)
         IN  (IF j = 0 THEN <<>>
              ELSE <<ContraindicationWarning(store.patient_conditions[k].name,
                                             store.medicine_contraindications[j].notes)>>)
             \o C10_ConditionWarnings(medicine, conditions, i + 1)

C10_Expected(medicine, conditions, age) ==
    (IF medicine.pregnancy_category \in {"X", "D", "C"}
     THEN PregnancyWarnings(medicine) ELSE <<>>)
    \o (IF age # NoAge /\ age[1] < 12 /\ ~TruthyText(medicine.pediatric_use)
        THEN <<Warning("Not recommended for children under 12")>>
        ELSE IF age # NoAge /\ age[1] > 65 /\ ~TruthyText(medicine.geriatric_use)
        THEN <<Warning("Use with caution in elderly patients")>>
        ELSE <<>>)
    \o C10_ConditionWarnings(medicine, conditions, 1)

\* C10: the warnings of a medicine are the pregnancy-category warning, then
\* at most one age warning, then one warning per supplied condition with a
\* contraindication row, in the order supplied, naming the stored condition
\* and the row's notes; a candidate with a severe row for "Pregnancy" is
\* returned for (["Fever"], ["Pregnancy"], adult, "female", "moderate") with
\* a warning naming "Pregnancy".
C10_WarningsOrder ==
    /\ op = "_get_safety_warnings"
          => /\ outcome = "returned"
             /\ ret = C10_Expected(args.medicine, args.conditions, args.age)
    /\ (/\ op = "get_recommendations"
        /\ args.symptoms = <<Fever>>
        /\ args.conditions = <<Pregnancy>>
        /\ args.age = <<30>>
        /\ args.gender = "female"
        /\ args.severity = "moderate")
          => \A c \in Range(store.medicine_contraindications) :
                (/\ c.severity = "severe"
                 /\ store.patient_conditions[FirstCondition(Pregnancy)].id = c.condition_id
                 /\ \E m \in Range(search_medicines_by_symptoms(args.symptoms)) :
                       m.id = c.medicine_id)
                   => /\ outcome = "returned"
                      /\ \E i \in 1..Len(ret) :
                            /\ ret[i].medicine.id = c.medicine_id
                            /\ \E w \in Range(ret[i].safety_warnings) :
                                  w.condition = Pregnancy

\* the positions of the requested names that resolve to a stored symptom
C11_Resolved(symptoms) ==
    { i \in 1..Len(symptoms) :
        \E s \in Range(store.symptoms) : ilike(s.name, symptoms[i]) }

\* the stored symptom a name resolves to: the first one, in storage order,
\* whose name contains it
C11_Symptom(term) ==
    store.symptoms[CHOOSE k \in 1..Len(store.symptoms) :
        /\ ilike(store.symptoms[k].name, term)
        /\ \A j \in 1..(k - 1) : ~ilike(store.symptoms[j].name, term)]

\* the stored edge score of (medicine, symptom): that of the first edge row,
\* 0 without one
C11_EdgeScore(medicine_id, symptom_id) ==
    LET rows == { i \in 1..Len(store.medicine_symptoms) :
                    /\ store.medicine_symptoms[i].medicine_id = medicine_id
                    /\ store.medicine_symptoms[i].symptom_id = symptom_id }
    IN  IF rows = {} THEN RZero
        ELSE store.medicine_symptoms[CHOOSE i \in rows : \A j \in rows : i <= j]
                 .effectiveness_score

\* the sum of the edge scores over a set of positions of the request
RECURSIVE C11_Sum(_, _, _)
C11_Sum(medicine, symptoms, positions) ==
    IF positions = {} THEN RZero
    ELSE LET i == CHOOSE p \in positions : TRUE
         IN  RAdd(C11_EdgeScore(medicine.id, C11_Symptom(symptoms[i]).id),
                  C11_Sum(medicine, symptoms, positions \ {i}))

\* C11: the effectiveness of a medicine for a list of names is the sum of
\* the stored edge scores of the names that resolve to a stored symptom
\* (first case-insensitive substring match; 0.0 without an edge) divided by
\* the number of names that resolved, not by the length of the list; it is
\* 0.0 for an empty list and when no name resolves; it lies in [0, 1] when
\* all stored edge scores do.
C11_EffectivenessAverage ==
    op = "_get_effectiveness_for_symptoms" =>
        LET resolved == C11_Resolved(args.symptoms)
        IN  /\ outcome = "returned"
            /\ resolved = {} => ret = RZero
            /\ resolved # {} =>
                  ret = RDivInt(C11_Sum(args.medicine, args.symptoms, resolved),
                                Cardinality(resolved))
            /\ (\A e \in Range(store.medicine_symptoms) :
                    RLeq(RZero, e.effectiveness_score) /\ RLeq(e.effectiveness_score, ROne))
                  => RLeq(RZero, ret) /\ RLeq(ret, ROne)

\* a request of one resolving and one unknown name, for a medicine with a
\* positive edge score: the unknown name does not lower the average
C11_Witness ==
    /\ op = "_get_effectiveness_for_symptoms"
    /\ outcome = "returned"
    /\ Len(args.symptoms) = 2
    /\ Cardinality(C11_Resolved(args.symptoms)) = 1
    /\ Cough \in Range(args.symptoms)
    /\ fever \in Range(args.symptoms)
    /\ ret = R(9, 10)

\* the severities from the weakest to the strongest
C12_Rank(severity) ==
    IF severity = "mild" THEN 1 ELSE IF severity = "moderate" THEN 2 ELSE 3

\* the score of the same medicine and request under another severity
C12_ScoreUnder(severity) ==
    calculate_medicine_score(args.medicine, args.symptoms, args.conditions,
                             args.age, args.gender, severity)

\* C12: for the same store, medicine, symptoms, conditions, age and gender
\* the score under "severe" is >= the score under "moderate", which is >=
\* the score under "mild"; hence a medicine passes the score > 0 filter
\* under one severity exactly when it passes under the others.
C12_SeverityMonotone ==
    (op = "_calculate_medicine_score" /\ outcome = "returned") =>
        \A other \in Severities \ {args.severity} :
            \A score \in {C12_ScoreUnder(other)} :
                /\ ~score.raised
                /\ C12_Rank(args.severity) < C12_Rank(other) => RLeq(ret, score.value)
                /\ C12_Rank(other) < C12_Rank(args.severity) => RLeq(score.value, ret)
                /\ Positive(ret) <=> Positive(score.value)

\* a positive mild score that is strictly below the moderate one, which is
\* strictly below the severe one
C12_Witness ==
    /\ op = "_calculate_medicine_score"
    /\ outcome = "returned"
    /\ args.severity = "mild"
    /\ args.conditions # <<>>
    /\ Positive(ret)
    /\ RLess(ret, C12_ScoreUnder("moderate").value)
    /\ RLess(C12_ScoreUnder("moderate").value, C12_ScoreUnder("severe").value)

\* the position of a medicine in the list the candidate lookup returned
C13_Position(candidates, medicine) ==
    CHOOSE k \in 1..Len(candidates) : candidates[k] = medicine

\* entries of equal score are in the order of the candidate lookup
C13_TiesInLookupOrder(candidates, list) ==
    \A i \in 1..Len(list) : \A j \in (i + 1)..Len(list) :
        list[i].score = list[j].score
            => C13_Position(candidates, list[i].medicine)
                 < C13_Position(candidates, list[j].medicine)

\* the sorted list of the request before it is cut to 10
C13_BeforeTruncation ==
    SortByScore(ScoringLoop(search_medicines_by_symptoms(args.symptoms), 1,
                            args.symptoms, args.conditions, args.age, args.gender,
                            args.severity, <<>>).value)

\* C13: the sort of get_recommendations is stable: two returned medicines
\* of equal score are in the relative order in which the candidate lookup
\* returned them, in the sorted list before the cut to 10 and in the
\* returned list after it.
C13_StableSort ==
    (Recommended /\ ret # <<>>) =>
        \A candidates \in {search_medicines_by_symptoms(args.symptoms)} :
            \A sorted \in {C13_BeforeTruncation} :
                /\ C13_TiesInLookupOrder(candidates, sorted)
                /\ C13_TiesInLookupOrder(candidates, ret)
                /\ ret = SubSeq(sorted, 1, Len(ret))

\* more than 10 entries were sorted and cut; the returned list has a tie
\* and the entries dropped by the cut tie as well
C13_Witness ==
    /\ Recommended
    /\ Len(C13_BeforeTruncation) > TopN
    /\ \E i \in 1..Len(ret) : \E j \in (i + 1)..Len(ret) :
          ret[i].score = ret[j].score
    /\ C13_BeforeTruncation[TopN + 1].score = C13_BeforeTruncation[TopN + 2].score

\* the outcome of the same request made with another gender
C14_Under(gender) ==
    get_recommendations(args.symptoms, args.conditions, args.age, gender,
                        args.severity)

\* the outcome observed is the outcome r
C14_Same(r) == (r.raised <=> outcome = "raised") /\ r.value = ret

\* C14: for the same store, symptoms, conditions, age and severity,
\* get_recommendations yields the identical list (medicines, order, scores,
\* effectiveness values, warnings) for every gender, absent included: the
\* outcome for a given gender is the outcome for the absent gender, so
\* the outcomes for any two genders are the same.
C14_GenderNonInterference ==
    (op = "get_recommendations" /\ args.gender # None) =>
        \A absent \in {C14_Under(None)} : C14_Same(absent)

\* a request of a female patient that returned a category D medicine with
\* its pregnancy warning; a male patient gets the same list
C14_Witness ==
    /\ Recommended
    /\ args.gender = "female"
    /\ \E i \in 1..Len(ret) :
          /\ ret[i].medicine.pregnancy_category = "D"
          /\ ret[i].safety_warnings # <<>>
    /\ C14_Under("male").value = ret

\* the advisories as claimed, in the claimed order
C15_Expected(conditions, age) ==
    (IF Pregnancy \in Range(conditions)
     THEN <<"You are pregnant. Consult your doctor before taking any medication.">>
     ELSE <<>>)
    \o (IF LiverDisease \in Range(conditions)
        THEN <<"You have liver disease. Some medications may be harmful.">>
        ELSE <<>>)
    \o (IF KidneyDisease \in Range(conditions)
        THEN <<"You have kidney disease. Some medications may be harmful.">>
        ELSE <<>>)
    \o (IF age # NoAge /\ age[1] < 18
        THEN <<"You are under 18. Consult a pediatrician before taking any medication.">>
        ELSE <<>>)
    \o (IF age # NoAge /\ age[1] > 65
        THEN <<"You are over 65. Some medications may affect you differently.">>
        ELSE <<>>)

\* C15: get_safety_warnings returns, whatever the recommendations and the
\* store are, exactly the pregnancy advisory iff "Pregnancy" is among the
\* conditions, the liver advisory iff "Liver Disease" is, the kidney
\* advisory iff "Kidney Disease" is, the under-18 advisory iff an age is
\* supplied and is < 18 (age 0 included), the over-65 advisory iff age > 65,
\* in that order; ([], 70) gives the over-65 and not the under-18 advisory.
C15_SafetyOverview ==
    op = "get_safety_warnings" =>
        /\ outcome = "returned"
        /\ ret = C15_Expected(args.conditions, args.age)

\* a stored symptom is mentioned: its whole name occurs in the text, or one
\* of its words of more than 3 characters does, letter case aside
C16_Mentioned(name, text) ==
    \/ ilike(text, name)
    \/ \E a \in 1..Len(name) : \E b \in a..Len(name) :
          /\ \A j \in a..b : ~IsSpace(name[j])
          /\ a = 1 \/ IsSpace(name[a - 1])
          /\ b = Len(name) \/ IsSpace(name[b + 1])
          /\ b - a + 1 > 3
          /\ ilike(text, SubSeq(name, a, b))

\* the names of the mentioned symptoms among the first n stored ones, in
\* storage order
RECURSIVE C16_Expected(_, _)
C16_Expected(text, n) ==
    IF n = 0 THEN <<>>
    ELSE C16_Expected(text, n - 1)
         \o (IF C16_Mentioned(store.symptoms[n].name, text)
             THEN <<store.symptoms[n].name>> ELSE <<>>)

\* C16: _extract_symptoms_from_text returns, in storage order and each at
\* most once, exactly the names of the stored symptoms whose lowercased
\* name occurs in the lowercased text or that have a word of more than 3
\* characters occurring in it; "I have a fever and headache" yields "Fever"
\* and "Headache" when both are stored.
C16_ExtractSymptoms ==
    op = "_extract_symptoms_from_text" =>
        /\ outcome = "returned"
        /\ ret = C16_Expected(args.text, Len(store.symptoms))
        /\ \A i \in 1..Len(ret) : \A j \in 1..Len(ret) : ret[i] = ret[j] => i = j
        /\ (/\ args.text = FeverAndHeadache
            /\ \E x \in Range(store.symptoms) : x.name = Fever
            /\ \E x \in Range(store.symptoms) : x.name = Headache)
              => Fever \in Range(ret) /\ Headache \in Range(ret)

\* "my throat is dry" on a store with "Sore Throat" and "Dry Eye": the long
\* word "throat" finds the first, the short word "dry" does not find the second
C16_Witness ==
    /\ op = "_extract_symptoms_from_text"
    /\ outcome = "returned"
    /\ args.text = DryThroat
    /\ \E x \in Range(store.symptoms) : x.name = DryEye
    /\ ret = <<SoreThroat>>

\* a letter
C17_IsLetter(c) == (c >= 65 /\ c <= 90) \/ (c >= 97 /\ c <= 122)

\* the cue occurs in the text as a word: letter case aside, and with no
\* letter before or after it
C17_HasWord(text, cue) ==
    \E i \in 0..(Len(text) - Len(cue)) :
        /\ \A j \in 1..Len(cue) : LowerChar(text[i + j]) = cue[j]
        /\ i = 0 \/ ~C17_IsLetter(text[i])
        /\ i + Len(cue) = Len(text) \/ ~C17_IsLetter(text[i + Len(cue) + 1])

\* the gender as claimed
C17_Gender(text) ==
    IF \E cue \in Range(MaleCues) : C17_HasWord(text, cue) THEN "male"
    ELSE IF \E cue \in Range(FemaleCues) : C17_HasWord(text, cue) THEN "female"
    ELSE None

\* C17: _extract_patient_info sets gender to "male" iff one of male, man,
\* boy, he, him occurs in the text as a word (case-insensitive), otherwise
\* to "female" iff one of female, woman, girl, she, her occurs as a word,
\* otherwise gender is absent; a text whose only cue is the word "female",
\* "woman", "she" or "her" yields "female".
C17_GenderCues ==
    op = "_extract_patient_info" =>
        /\ outcome = "returned"
        /\ ret.gender = C17_Gender(args.text)
        /\ "gender" \in ret.keys <=> C17_Gender(args.text) # None

\* the names of the stored conditions, among the first n, whose name occurs
\* in the text (letter case aside), in storage order
RECURSIVE C18_Conditions(_, _)
C18_Conditions(text, n) ==
    IF n = 0 THEN <<>>
    ELSE C18_Conditions(text, n - 1)
         \o (IF ilike(text, store.patient_conditions[n].name)
             THEN <<store.patient_conditions[n].name>> ELSE <<>>)

\* an integer of the text: a maximal run of digits from a to b
C18_Integer(text, a, b) ==
    /\ a <= b
    /\ \A j \in a..b : IsDigit(text[j])
    /\ a = 1 \/ ~IsDigit(text[a - 1])
    /\ b = Len(text) \/ ~IsDigit(text[b + 1])

\* after position b come, white space aside, the letters of year(s),
\* yr(s) or old
C18_Followed(text, b) ==
    \E k \in (b + 1)..(Len(text) + 1) :
        /\ \A j \in (b + 1)..(k - 1) : IsSpace(text[j])
        /\ \E w \in Range(AgeKeywords) :
              k + Len(w) - 1 <= Len(text) /\ ilike(SubSeq(text, k, k + Len(w) - 1), w)

\* the value of the decimal numeral text[a..b]
RECURSIVE C18_Decimal(_, _, _)
C18_Decimal(text, a, b) ==
    IF a > b THEN 0
    ELSE (text[a] - 48) * 10 ^ (b - a) + C18_Decimal(text, a + 1, b)

\* the integers of the text that are followed by a keyword, as <<a, b>>
C18_AgeCandidates(text) ==
    { ab \in (1..Len(text)) \X (1..Len(text)) :
        C18_Integer(text, ab[1], ab[2]) /\ C18_Followed(text, ab[2]) }

\* the age as claimed: that of the first such integer
C18_Age(text) ==
    LET candidates == C18_AgeCandidates(text)
        first == CHOOSE ab \in candidates : \A cd \in candidates : ab[1] <= cd[1]
    IN  IF candidates = {} THEN NoAge
        ELSE <<C18_Decimal(text, first[1], first[2])>>

\* C18: _extract_patient_info returns as conditions exactly the stored
\* condition names whose lowercased name occurs in the lowercased text, in
\* storage order, and as age the first integer of the text that is
\* followed by year(s) / yr(s) / old; a field with nothing extracted is
\* absent. "I am a 25 year old male with diabetes" yields age 25 and
\* conditions ["Diabetes"] when "Diabetes" is stored.
C18_ConditionsAndAge ==
    op = "_extract_patient_info" =>
        /\ outcome = "returned"
        /\ ret.conditions = C18_Conditions(args.text, Len(store.patient_conditions))
        /\ ret.age = C18_Age(args.text)
        /\ "conditions" \in ret.keys <=> ret.conditions # <<>>
        /\ "age" \in ret.keys <=> ret.age # NoAge
        /\ "gender" \in ret.keys <=> ret.gender # None
        /\ (/\ args.text = MaleWithDiabetes
            /\ \E c \in Range(store.patient_conditions) : c.name = Diabetes)
              => ret.age = <<25>> /\ ret.conditions = <<Diabetes>>

\* a text whose first integer is not an age and whose second is: the age
\* is the second, and the one condition mentioned is returned
C18_Witness ==
    /\ op = "_extract_patient_info"
    /\ outcome = "returned"
    /\ args.text = PillsAndPregnancy
    /\ ret.keys = {"age", "conditions"}
    /\ ret.age = <<70>>
    /\ ret.conditions = <<Pregnancy>>

\* C19: when the text mentions no stored symptom, process_chat_message
\* returns symptoms_found = [], recommendations = [], the generic
\* describe-your-symptoms message and the four fixed clarifying questions,
\* and get_recommendations is not called; when a symptom is found,
\* questions is empty.
C19_NoSymptoms ==
    op = "process_chat_message" =>
        /\ C16_Expected(args.message, Len(store.symptoms)) = <<>>
              => /\ outcome = "returned"
                 /\ ret.symptoms_found = <<>>
                 /\ ret.recommendations = <<>>
                 /\ ret.message.wording = "I didn't detect any specific symptoms in your message. Could you describe what symptoms you're experiencing?"
                 /\ ret.questions = <<"What symptoms are you experiencing?",
                                      "How long have you had these symptoms?",
                                      "Are you taking any other medications?",
                                      "Do you have any medical conditions I should know about?">>
                 /\ "get_recommendations" \notin calls
        /\ (C16_Expected(args.message, Len(store.symptoms)) # <<>> /\ outcome = "returned")
              => ret.questions = <<>>

\* a message with an age, a gender cue and a condition but no stored
\* symptom, answered on the catalogue with the four questions
C19_Witness ==
    /\ op = "process_chat_message"
    /\ outcome = "returned"
    /\ args.message = MaleWithDiabetes
    /\ Len(store.medicines) > TopN
    /\ ret.patient_info.keys = {"age", "gender", "conditions"}
    /\ ret.symptoms_found = <<>>
    /\ Len(ret.questions) = 4
    /\ "get_recommendations" \notin calls

\* the recommendations for what the message mentions: the symptoms of C16,
\* the conditions and the age of C18, the gender extracted, severity moderate
C20_Recommend ==
    get_recommendations(C16_Expected(args.message, Len(store.symptoms)),
                        C18_Conditions(args.message, Len(store.patient_conditions)),
                        C18_Age(args.message),
                        ret.patient_info.gender,
                        "moderate")

\* C20: when the text mentions a stored symptom, the recommendations of
\* the response are the first 3 entries (fewer if there are fewer) of
\* get_recommendations for the extracted symptoms, conditions (or []), age
\* and gender with severity moderate, in the same order; the message names
\* the symptoms found and has the recommendations wording iff that list is
\* not empty, the consult-a-professional wording otherwise.
C20_TopThree ==
    (/\ op = "process_chat_message"
     /\ outcome = "returned"
     /\ C16_Expected(args.message, Len(store.symptoms)) # <<>>) =>
        /\ ~C20_Recommend.raised
        /\ Len(ret.recommendations) =
              (IF Len(C20_Recommend.value) < 3 THEN Len(C20_Recommend.value) ELSE 3)
        /\ \A i \in 1..Len(ret.recommendations) :
              ret.recommendations[i] = C20_Recommend.value[i]
        /\ ret.symptoms_found = C16_Expected(args.message, Len(store.symptoms))
        /\ ret.message.n = Len(ret.symptoms_found)
        /\ \A i \in 1..Len(ret.symptoms_found) :
              contains(ret.message.names, ret.symptoms_found[i])
        /\ C20_Recommend.value # <<>>
              => ret.message.wording =
                   "I found {n} symptom(s): {names}. Here are some recommendations:"
        /\ C20_Recommend.value = <<>>
              => ret.message.wording =
                   "I found {n} symptom(s): {names}. However, I don't have specific recommendations for these symptoms. Please consult a healthcare professional."

\* a message naming two symptoms for which more than 3 medicines are
\* recommended: the response carries the best 3
C20_Witness ==
    /\ op = "process_chat_message"
    /\ outcome = "returned"
    /\ args.message = FeverAndHeadache
    /\ ret.symptoms_found = <<Fever, Headache>>
    /\ Len(C20_Recommend.value) > 3
    /\ Len(ret.recommendations) = 3
    /\ RLess(ret.recommendations[3].score, ret.recommendations[1].score)

\* C22: no call of the engine (get_recommendations, get_safety_warnings,
\* process_chat_message, the two extractors, and the lookups they make)
\* changes the knowledge store: after every step of every sequence of calls
\* the five tables are what they were before it.
C22_StoreReadOnly == [][store' = store]_vars

\* a chat request that looked up symptoms, conditions and medicines has
\* returned recommendations, and the store is still the one with the
\* symptom names of several words
C22_Witness ==
    /\ op = "process_chat_message"
    /\ outcome = "returned"
    /\ ret.recommendations # <<>>
    /\ "search_medicines_by_symptoms" \in calls
    /\ store = PhraseStore

\* the stored conditions whose name contains the given name, case ignored
C26_Matches ==
    { i \in 1..Len(store.patient_conditions) :
        \E at \in 0..(Len(store.patient_conditions[i].name) - Len(args.condition_name)) :
            lower(SubSeq(store.patient_conditions[i].name, at + 1,
                         at + Len(args.condition_name))) = lower(args.condition_name) }

\* the medicine has a contraindication row for the condition stored at row k
C26_HasEdge(medicine, k) ==
    \E i \in 1..Len(store.medicine_contraindications) :
        /\ store.medicine_contraindications[i].medicine_id = medicine.id
        /\ store.medicine_contraindications[i].condition_id = store.patient_conditions[k].id

\* C26: get_medicines_by_condition(name) returns, each once, exactly the
\* stored medicines without a contraindication row for the first stored
\* condition whose name contains the given name (case ignored), so all
\* medicines when that condition has no rows; when no stored condition
\* matches it returns the empty list and does not raise.
C26_MedicinesByCondition ==
    op = "get_medicines_by_condition" =>
        /\ outcome = "returned"
        /\ IF C26_Matches = {} THEN ret = <<>>
           ELSE \A k \in {CHOOSE i \in C26_Matches : \A j \in C26_Matches : i <= j} :
                  /\ Range(ret) = { m \in Range(store.medicines) : ~C26_HasEdge(m, k) }
                  /\ Cardinality(Range(ret)) = Len(ret)
                  /\ (\A m \in Range(store.medicines) : ~C26_HasEdge(m, k))
                        => Range(ret) = Range(store.medicines)

\* a lower-case fragment resolved to Pregnancy, and the medicines with a
\* contraindication row for it were left out, the others returned
C26_Witness ==
    /\ op = "get_medicines_by_condition"
    /\ args.condition_name = preg
    /\ ret # <<>>
    /\ Len(ret) < Len(store.medicines)

\* C28: every medicine appears at most once in the list returned by
\* get_recommendations, also when it has edges to several of the requested
\* symptoms or several edges to one of them.
C28_NoDuplicates ==
    Recommended =>
        \A i \in 1..Len(ret) : \A j \in 1..Len(ret) :
            ret[i].medicine.id = ret[j].medicine.id => i = j

\* a request for Fever and Headache returned the medicine that has two
\* Fever edges and a Headache edge
C28_Witness ==
    /\ Recommended
    /\ args.symptoms = <<Fever, Headache>>
    /\ \E i \in 1..Len(ret) :
          /\ ret[i].medicine.id = 1
          /\ Cardinality({ e \in 1..Len(store.medicine_symptoms) :
                             /\ store.medicine_symptoms[e].medicine_id = 1
                             /\ ~store.medicine_symptoms[e].contraindicated }) = 3

\* the stored symptom with exactly the given name
C30_Exact(name) ==
    store.symptoms[CHOOSE k \in 1..Len(store.symptoms) : store.symptoms[k].name = name]

\* the sum of the medicine's stored edge scores to the first n requested
\* symptoms, each taken by its exact name
RECURSIVE C30_Sum(_, _, _)
C30_Sum(medicine, symptoms, n) ==
    IF n = 0 THEN RZero
    ELSE RAdd(C30_Sum(medicine, symptoms, n - 1),
              get_medicine_effectiveness(medicine.id, C30_Exact(symptoms[n]).id))

\* C30: when every requested name is the exact name of a stored symptom,
\* the effectiveness reported for each returned medicine is the mean of
\* its stored edge scores to exactly the requested symptoms, also when the
\* name of another stored symptom contains a requested name.
C30_SameSymptom ==
    (/\ Recommended
     /\ \A i \in 1..Len(args.symptoms) :
           \E s \in Range(store.symptoms) : s.name = args.symptoms[i])
        => \A e \in 1..Len(ret) :
              ret[e].effectiveness =
                  RDivInt(C30_Sum(ret[e].medicine, args.symptoms, Len(args.symptoms)),
                          Len(args.symptoms))

\* the entries of the returned list that carry the medicine
C27_Entries(medicine) == { i \in 1..Len(ret) : ret[i].medicine = medicine }

\* C27: a contraindication never removes a medicine from the ranking by
\* itself: every candidate of the request with effectiveness above 0 is
\* returned, with score k * 0.6 * effectiveness when its safety score is 0,
\* and a candidate that is not returned has effectiveness 0 and safety
\* score 0.
C27_NeverRemoved ==
    (op = "get_recommendations" /\ args.symptoms # <<>>) =>
        \A medicine \in Range(search_medicines_by_symptoms(args.symptoms)) :
            \A effectiveness \in {get_effectiveness_for_symptoms(medicine, args.symptoms)},
               safety \in {calculate_safety_score(medicine, args.conditions, args.age)} :
                /\ Positive(effectiveness) =>
                      /\ outcome = "returned"
                      /\ C27_Entries(medicine) # {}
                      /\ (~safety.raised /\ safety.value = RZero) =>
                            \A i \in C27_Entries(medicine) :
                                ret[i].score =
                                    RMul(SeverityMultiplier(args.severity),
                                         RMul(R(6, 10), effectiveness))
                /\ (outcome = "returned" /\ C27_Entries(medicine) = {}) =>
                      /\ effectiveness = RZero
                      /\ ~safety.raised /\ safety.value = RZero

\* the positions of the condition list that name a stored condition for
\* which the medicine has a contraindication row of severity mild,
\* moderate or severe: the contraindication penalties of the safety score
C29_Penalised ==
    { i \in 1..Len(args.conditions) :
        \E k \in 1..Len(store.patient_conditions) :
            /\ ilike(store.patient_conditions[k].name, args.conditions[i])
            /\ \A j \in 1..(k - 1) :
                  ~ilike(store.patient_conditions[j].name, args.conditions[i])
            /\ \E c \in Range(store.medicine_contraindications) :
                  /\ c.medicine_id = args.medicine.id
                  /\ c.condition_id = store.patient_conditions[k].id
                  /\ c.severity \in Severities }

\* C29: for every medicine, condition list and age (contraindication
\* severities being mild, moderate or severe), _get_safety_warnings yields
\* a list that is non-empty exactly when _calculate_safety_score subtracted
\* a penalty (its result is below 1.0), and that has as many
\* contraindication warnings as contraindication penalties were applied.
C29_WarningsMatchPenalties ==
    op = "_get_safety_warnings" =>
        \A safety \in {calculate_safety_score(args.medicine, args.conditions, args.age)} :
            /\ outcome = "returned"
            /\ ~safety.raised
            /\ ret # <<>> <=> RLess(safety.value, ROne)
            /\ Cardinality({ i \in 1..Len(ret) : ret[i].text = "Contraindicated for" })
                  = Cardinality(C29_Penalised)

\* the label the classifier gave: the name the label encoder has for the
\* most probable class (None when the call did not get that far or the
\* encoder has no such class)
C24_Label ==
    IF /\ args.image_ok /\ args.model_loaded
       /\ args.predictions # "raises" /\ Len(args.predictions) > 1
       /\ args.label_encoder # None
       /\ argmax(args.predictions) <= Len(args.label_encoder)
    THEN args.label_encoder[argmax(args.predictions)]
    ELSE None

\* the stored medicines whose brand or generic name contains the label,
\* case ignored
C24_Matching ==
    { m \in Range(store.medicines) :
        \/ m.brand_name # None /\ contains(lower(m.brand_name), lower(C24_Label))
        \/ contains(lower(m.generic_name), lower(C24_Label)) }

\* C24: identify_tablet maps the classifier's label to a medicine by
\* case-insensitive name match, and a result with a null medicine_id
\* carries the medicine_name "Unknown": so it is when the label matches no
\* stored medicine, is missing or is "Unknown".
C24_UnknownWithoutMedicine ==
    (op = "identify_tablet" /\ outcome = "returned") =>
        /\ ret.medicine_id = NoId => ret.medicine_name = Unknown
        /\ ret.medicine_id # NoId =>
              \E m \in C24_Matching :
                  <<m.id>> = ret.medicine_id /\ ret.medicine_name = C24_Label

\* the name lookup of the call is reached: a label other than "Unknown" was
\* predicted
C25_LookupReached ==
    /\ C24_Label # None
    /\ C24_Label # <<>>
    /\ C24_Label # Unknown

\* the call is on a failure path: the image cannot be preprocessed, the
\* model is not loaded, the prediction raises or is empty, the label
\* encoder is missing, or the name lookup raises
C25_Failed ==
    \/ ~args.image_ok
    \/ ~args.model_loaded
    \/ args.predictions = "raises"
    \/ args.predictions = <<>>
    \/ Len(args.predictions) > 1 /\ args.label_encoder = None
    \/ C25_LookupReached /\ ~args.lookup_ok

\* C25: identify_tablet never raises to its caller; on every failure path
\* it returns success false, medicine_name "Unknown", a null medicine_id
\* and confidence 0.0, and on no other path.
C25_NeverRaises ==
    op = "identify_tablet" =>
        /\ outcome = "returned"
        /\ C25_Failed <=> ret.success = FALSE
        /\ C25_Failed =>
              /\ ret.medicine_name = Unknown
              /\ ret.medicine_id = NoId
              /\ ret.confidence = RZero

\* the image was read, the model predicted a stored medicine's label, and
\* the name lookup raised: the failure result carries the exception text
C25_Witness ==
    /\ op = "identify_tablet"
    /\ args.image_ok /\ args.model_loaded
    /\ C25_LookupReached
    /\ ~args.lookup_ok
    /\ outcome = "returned"
    /\ ret = FailureResult("OperationalError")

(***************************************************************************)
(* C23: requests of several threads on the one engine are independent      *)
(***************************************************************************)
\* the request of thread t has ended as `alone` says
C23_EndedAs(t, alone) ==
    IF alone.raised
    THEN threads[t].outcome = "raised" /\ threads[t].result = alone.value
    ELSE threads[t].outcome = "returned" /\ threads[t].result = alone.value

\* C23: when the recommend and respond requests of several threads are
\* interleaved between the lookups on the one engine, every request ends
\* with exactly the result it has when it runs alone on the same store
C23_Independent ==
    \A t \in Threads :
        threads[t].pc = "done" =>
            \A alone \in {Alone(threads[t].request)} : C23_EndedAs(t, alone)

\* two requests that were under way together have both ended, a recommend
\* request with two entries and a respond request with recommendations
C23_Witness ==
    /\ threads[1].pc = "done" /\ threads[2].pc = "done"
    /\ threads[1].overlapped /\ threads[2].overlapped
    /\ threads[1].request.kind = "recommend"
    /\ threads[1].outcome = "returned"
    /\ Len(threads[1].result) = 2
    /\ threads[2].request.kind = "respond"
    /\ threads[2].outcome = "returned"
    /\ Len(threads[2].result.recommendations) = 2

(***************************************************************************)
(* C21: no call leaves anything behind for a later one, and the            *)
(* conversation history has no effect                                      *)
(***************************************************************************)
\* the request without its conversation history
C21_Inert(request) == [request EXCEPT !.history = <<>>]

\* the request of thread t has ended as `fresh` says
C21_EndedAs(t, fresh) ==
    /\ (threads[t].outcome = "raised") = fresh.raised
    /\ threads[t].result = fresh.value

\* C21: whatever requests the engine has answered before, a request ends
\* as its operation does on the store with the same arguments and no
\* conversation history: the result of respond is the same for every
\* history, and the result of recommend depends on its arguments and the
\* store only
C21_Stateless ==
    \A t \in Threads :
        threads[t].pc = "done" =>
            \A fresh \in {Alone(C21_Inert(threads[t].request))} : C21_EndedAs(t, fresh)

\* a respond request with a conversation history has been answered with
\* recommendations after requests of every kind had been answered
C21_Witness ==
    /\ threads[1].pc = "done"
    /\ threads[1].request.kind = "respond"
    /\ threads[1].request.history # <<>>
    /\ threads[1].outcome = "returned"
    /\ Len(threads[1].result.recommendations) = 2
    /\ earlier = {"recommend", "respond", "overview"}

====
